---- MODULE Spec2Model ----
(***************************************************************************)
(* Verification model of the github-docs filtering and tree-construction   *)
(* engine: matchPattern / shouldIgnore / buildFileTree of                   *)
(* src/lib/github/fileUtils and the document assembler of                   *)
(* src/lib/markdown/generator.                                              *)
(*                                                                         *)
(* A JavaScript string is a sequence of one-character strings, so that     *)
(* split, endsWith, replace and the regular expression built by            *)
(* matchPattern are computed character by character as the code does.      *)
(***************************************************************************)
EXTENDS Integers, Sequences, FiniteSets, TLC

VARIABLES
  pattern,         \* matchPattern's `pattern` argument
  filePath,        \* the candidate: `filePath` of matchPattern / shouldIgnore
  ignorePatterns,  \* the rule list `ignorePatterns`
  items,           \* buildFileTree's `items` (flat entry list)
  maxDepth,        \* buildFileTree's `maxDepth`
  map,             \* buildFileTree's `map`: keys in Object.values order
  children,        \* children arrays of the directory nodes, by node path
  root,            \* buildFileTree's `root` array (the returned forest)
  flatFiles,       \* generateRepositoryMarkdown's `flatFiles`
  nextFile,        \* 1-based position of its for-of loop in flatFiles
  sections,        \* the per-file sections appended to `markdown` so far
  fetches,         \* the getFileContent calls started so far, settled or not
  pc,              \* position of the request being served
  call,            \* which function was last called on the inputs
  ret,             \* its outcome: "true", "false" or "SyntaxError"
  repoUrl,         \* `repoUrl` of the request body (empty when absent)
  response,        \* the NextResponse the route returned
  sourceIgnorePatterns,  \* the line-rule list `sourceIgnorePatterns`
  content,         \* `content`: what getFileContent resolved with
  filteredContent, \* `filteredContent` of generateFileContentMarkdown
  fileType,        \* `fileType` of generateFileContentMarkdown
  language,        \* `language`: the tag of the fenced block
  isLoading,       \* Home: `isLoading`
  repoInfo,        \* Home: `repoInfo` (FALSE is null)
  fileTree,        \* Home: `fileTree`, as the file paths of the tree shown
  markdown,        \* Home: `markdown`
  error,           \* Home: `error` (FALSE is null)
  selectedFile,    \* Home: `selectedFile` ("" is null)
  fileContent,     \* Home: `fileContent`, with the click it answers
  step,            \* the fetch handleRepoSubmit awaits, or "idle"
  requests,        \* the fetches its current run issued, with outcomes
  inFlight,        \* handleFileClick's fetches not yet settled
  clicks,          \* number of handleFileClick calls so far
  submits,         \* number of handleRepoSubmit calls so far
  formRepoUrl,     \* RepoForm: `repoUrl`
  depth,           \* RepoForm: `depth`
  onSubmit         \* the last onSubmit(url, depth) call RepoForm made

vars == <<pattern, filePath, ignorePatterns, items, maxDepth, map, children,
          root, flatFiles, nextFile, sections, fetches, pc, call, ret, repoUrl,
          response, sourceIgnorePatterns, content, filteredContent,
          fileType, language, isLoading, repoInfo, fileTree, markdown, error,
          selectedFile, fileContent, step, requests, inFlight, clicks,
          submits, formRepoUrl, depth, onSubmit>>

treeVars == <<items, maxDepth, map, children, root>>
docVars == <<flatFiles, nextFile, sections, fetches>>
routeVars == <<repoUrl, response>>
lineVars == <<sourceIgnorePatterns, content, filteredContent>>
tagVars == <<fileType, language>>
pageVars == <<isLoading, repoInfo, fileTree, markdown, error, selectedFile,
              fileContent, step, requests, inFlight, clicks, submits>>
formVars == <<formRepoUrl, depth, onSubmit>>

\* setFileContent(null): nothing to display
NoContent == [kind |-> "null", path |-> "", click |-> 0]

\* no onSubmit call yet
NotCalled == [called |-> FALSE, url |-> <<>>, depth |-> 0]

\* Home's useState initial values; no handler has run
PageInitial ==
  /\ isLoading = FALSE
  /\ repoInfo = FALSE
  /\ fileTree = <<>>
  /\ markdown = ""
  /\ error = FALSE
  /\ selectedFile = ""
  /\ fileContent = NoContent
  /\ step = "idle"
  /\ requests = <<>>
  /\ inFlight = {}
  /\ clicks = 0
  /\ submits = 0

\* RepoForm's useState initial values
FormInitial ==
  /\ formRepoUrl = <<>>
  /\ depth = 1
  /\ onSubmit = NotCalled

----------------------------------------------------------------------------
(* Bounds of the explored input space.                                     *)

MaxPatLen == 3
MaxPathLen == 3
MaxRules == 3
MaxItems == 3
MaxDepthBound == 3

----------------------------------------------------------------------------
(* Strings.                                                                *)

\* characters a pattern is drawn from in the exhaustive matcher check
PatChars == {"a", ".", "*", "?", "+", "[", "!"}

\* characters a candidate is drawn from in the exhaustive matcher check
PathChars == {"a", ".", "/", "\r"}

RECURSIVE StringsUpTo(_, _)
StringsUpTo(chars, n) ==
  IF n = 0 THEN {<<>>}
  ELSE LET shorter == StringsUpTo(chars, n - 1)
       IN shorter \cup {Append(s, c) : s \in shorter, c \in chars}

\* String.prototype.startsWith
startsWith(s, prefix) ==
  /\ Len(s) >= Len(prefix)
  /\ SubSeq(s, 1, Len(prefix)) = prefix

\* String.prototype.endsWith
endsWith(s, suffix) ==
  /\ Len(s) >= Len(suffix)
  /\ SubSeq(s, Len(s) - Len(suffix) + 1, Len(s)) = suffix

\* String.prototype.substring(from) with a 0-based start index
substring(s, from) == SubSeq(s, from + 1, Len(s))

\* white space removed by String.prototype.trim
WhiteSpace == {" ", "\t", "\n", "\r"}

RECURSIVE trimStart(_)
trimStart(s) ==
  IF s # <<>> /\ Head(s) \in WhiteSpace THEN trimStart(Tail(s)) ELSE s

RECURSIVE trimEnd(_)
trimEnd(s) ==
  IF s # <<>> /\ s[Len(s)] \in WhiteSpace
  THEN trimEnd(SubSeq(s, 1, Len(s) - 1)) ELSE s

\* String.prototype.trim
trim(s) == trimEnd(trimStart(s))

\* s.split('/'): the sequence of '/'-separated segments (never empty)
RECURSIVE split(_)
split(s) ==
  IF \A i \in 1..Len(s) : s[i] # "/" THEN <<s>>
  ELSE LET i == CHOOSE k \in 1..Len(s) :
                  s[k] = "/" /\ \A j \in 1..(k - 1) : s[j] # "/"
       IN <<SubSeq(s, 1, i - 1)>> \o split(SubSeq(s, i + 1, Len(s)))

\* parts.join('/')
RECURSIVE join(_)
join(parts) ==
  IF parts = <<>> THEN <<>>
  ELSE IF Len(parts) = 1 THEN parts[1]
  ELSE parts[1] \o <<"/">> \o join(Tail(parts))

\* s.split('/').pop() || ''
baseName(s) == LET parts == split(s) IN parts[Len(parts)]

\* parts.pop(); parts.join('/')
parentPathOf(s) == LET parts == split(s) IN join(SubSeq(parts, 1, Len(parts) - 1))

\* s.replace(/c/g, rep) for a single character c
RECURSIVE replaceAll(_, _, _)
replaceAll(s, c, rep) ==
  IF s = <<>> THEN <<>>
  ELSE (IF Head(s) = c THEN rep ELSE <<Head(s)>>) \o replaceAll(Tail(s), c, rep)

----------------------------------------------------------------------------
(* The regular expression matchPattern builds (ECMAScript, no flags).      *)

\* pattern.replace(/\./g,'\\.').replace(/\*/g,'.*').replace(/\?/g,'.')
regexPattern(p) ==
  replaceAll(replaceAll(replaceAll(p, ".", <<"\\", ".">>), "*", <<".", "*">>),
             "?", <<".">>)

\* `^${regexPattern}$`
regexSource(p) == <<"^">> \o regexPattern(p) \o <<"$">>

\* characters the regular expression atom '.' does not match
LineTerminators == {"\n", "\r"}

\* new RegExp(src): the term sequence, or a SyntaxError.  A term is an
\* assertion (bol, eol) or an atom (any, lit) with a quantifier "1", "*", "+".
\* `quantifiable` says whether the previous term is an unquantified atom.
RECURSIVE parseRegExp(_, _, _)
parseRegExp(src, terms, quantifiable) ==
  IF src = <<>> THEN [ok |-> TRUE, terms |-> terms]
  ELSE LET c == Head(src)
           rest == Tail(src)
       IN CASE c = "^" ->
                 parseRegExp(rest, Append(terms, [kind |-> "bol", ch |-> "", quant |-> "1"]), FALSE)
            [] c = "$" ->
                 parseRegExp(rest, Append(terms, [kind |-> "eol", ch |-> "", quant |-> "1"]), FALSE)
            [] c = "\\" ->
                 \* identity escape; "\ at end of pattern" otherwise
                 IF rest = <<>> THEN [ok |-> FALSE, terms |-> <<>>]
                 ELSE parseRegExp(Tail(rest),
                        Append(terms, [kind |-> "lit", ch |-> Head(rest), quant |-> "1"]), TRUE)
            [] c = "." ->
                 parseRegExp(rest, Append(terms, [kind |-> "any", ch |-> "", quant |-> "1"]), TRUE)
            [] c \in {"*", "+"} ->
                 \* "Nothing to repeat" after an assertion or a quantifier
                 IF ~quantifiable THEN [ok |-> FALSE, terms |-> <<>>]
                 ELSE parseRegExp(rest,
                        [terms EXCEPT ![Len(terms)].quant = c], FALSE)
            [] c = "[" ->
                 \* a character class needs its closing bracket:
                 \* "Unterminated character class" otherwise (class ranges
                 \* and negation lie outside the explored alphabets)
                 IF \A i \in 1..Len(rest) : rest[i] # "]"
                 THEN [ok |-> FALSE, terms |-> <<>>]
                 ELSE LET close == CHOOSE k \in 1..Len(rest) :
                                     rest[k] = "]" /\ \A j \in 1..(k - 1) : rest[j] # "]"
                      IN parseRegExp(SubSeq(rest, close + 1, Len(rest)),
                           Append(terms, [kind |-> "class",
                                          ch |-> SubSeq(rest, 1, close - 1),
                                          quant |-> "1"]), TRUE)
            [] OTHER ->
                 parseRegExp(rest, Append(terms, [kind |-> "lit", ch |-> c, quant |-> "1"]), TRUE)

\* new RegExp(`^${regexPattern}$`)
RegExp(src) == parseRegExp(src, <<>>, FALSE)

\* does the atom of term t accept character c
atomAccepts(t, c) ==
  CASE t.kind = "any" -> c \notin LineTerminators
    [] t.kind = "lit" -> c = t.ch
    [] t.kind = "class" -> \E i \in 1..Len(t.ch) : t.ch[i] = c
    [] OTHER -> FALSE

\* backtracking match of terms[k..] against s from index i (1-based)
RECURSIVE matchFrom(_, _, _, _)
matchFrom(terms, k, s, i) ==
  IF k > Len(terms) THEN TRUE
  ELSE LET t == terms[k]
           here == i <= Len(s) /\ atomAccepts(t, s[i])
       IN CASE t.kind = "bol" -> i = 1 /\ matchFrom(terms, k + 1, s, i)
            [] t.kind = "eol" -> i = Len(s) + 1 /\ matchFrom(terms, k + 1, s, i)
            [] t.quant = "1" -> here /\ matchFrom(terms, k + 1, s, i + 1)
            [] t.quant = "*" ->
                 \/ here /\ matchFrom(terms, k, s, i + 1)
                 \/ matchFrom(terms, k + 1, s, i)
            [] OTHER -> \* "+"
                 here /\ (\/ matchFrom(terms, k, s, i + 1)
                          \/ matchFrom(terms, k + 1, s, i + 1))

\* regex.test(s): a match starting at some index
regexTest(terms, s) == \E i \in 1..(Len(s) + 1) : matchFrom(terms, 1, s, i)

----------------------------------------------------------------------------
(* matchPattern and shouldIgnore.  An outcome is "true", "false" or        *)
(* "SyntaxError" (the exception new RegExp raises).                        *)

Bool(b) == IF b THEN "true" ELSE "false"

matchPattern(pat, path) ==
  IF pat = <<>> THEN "false"
  ELSE IF pat = path THEN "true"
  ELSE IF pat = baseName(path) THEN "true"
  ELSE LET regex == RegExp(regexSource(pat))
       IN IF ~regex.ok THEN "SyntaxError"
          ELSE Bool(regexTest(regex.terms, path) \/ regexTest(regex.terms, baseName(path)))

PackageLockJson ==
  <<"p", "a", "c", "k", "a", "g", "e", "-", "l", "o", "c", "k", ".", "j", "s", "o", "n">>

\* callback that takes comment lines and blank lines for rules
ignoreCallbackNoSkip(pat, path) ==
  IF startsWith(pat, <<"!">>)
  THEN LET m == matchPattern(substring(pat, 1), path)
       IN IF m = "SyntaxError" THEN m ELSE Bool(m = "false")
  ELSE matchPattern(pat, path)

\* the callback handed to ignorePatterns.some
ignoreCallback(pat, path) ==
  IF startsWith(pat, <<"#">>) \/ trim(pat) = <<>> THEN "false"
  ELSE IF startsWith(pat, <<"!">>)
       THEN LET m == matchPattern(substring(pat, 1), path)
            IN IF m = "SyntaxError" THEN m ELSE Bool(m = "false")
       ELSE matchPattern(pat, path)

\* Array.prototype.some: the first "true" or exception ends the iteration
RECURSIVE some(_, _)
some(pats, path) ==
  IF pats = <<>> THEN "false"
  ELSE LET r == ignoreCallback(Head(pats), path)
       IN IF r = "false" THEN some(Tail(pats), path) ELSE r

\* shouldIgnore with the lock-file override limited to the top-level file
shouldIgnoreTopLevelLockOnly(path, pats) ==
  IF path = PackageLockJson THEN "true"
  ELSE IF Len(pats) = 0 THEN "false"
  ELSE some(pats, path)

shouldIgnore(path, pats) ==
  IF path = PackageLockJson \/ endsWith(path, <<"/">> \o PackageLockJson) THEN "true"
  ELSE IF Len(pats) = 0 THEN "false"
  ELSE some(pats, path)

\* no response has been returned yet
NoResponse ==
  [status |-> 0, error |-> FALSE, fileTree |-> FALSE, markdown |-> FALSE]

----------------------------------------------------------------------------
(* SpecMatch: one pattern against one candidate, both drawn exhaustively.  *)

InitMatch ==
  /\ PageInitial
  /\ FormInitial
  /\ pattern \in StringsUpTo(PatChars, MaxPatLen)
  /\ filePath \in StringsUpTo(PathChars, MaxPathLen)
  /\ ignorePatterns = <<pattern>>
  /\ items = <<>>
  /\ maxDepth = -1
  /\ map = <<>>
  /\ children = <<>>
  /\ root = <<>>
  /\ flatFiles = <<>>
  /\ nextFile = 1
  /\ sections = <<>>
  /\ fetches = <<>>
  /\ pc = "idle"
  /\ call = "none"
  /\ ret = "none"
  /\ repoUrl = <<>>
  /\ response = NoResponse
  /\ sourceIgnorePatterns = <<>>
  /\ content = <<>>
  /\ filteredContent = <<>>
  /\ fileType = ""
  /\ language = ""

\* matchPattern(pattern, filePath) returns
CallMatchPattern ==
  /\ pc = "idle"
  /\ matchPattern(pattern, filePath) # "SyntaxError"
  /\ call' = "matchPattern"
  /\ ret' = matchPattern(pattern, filePath)
  /\ pc' = "returned"
  /\ UNCHANGED <<pattern, filePath, ignorePatterns, treeVars, docVars, routeVars, lineVars, tagVars, pageVars, formVars>>

\* matchPattern(pattern, filePath) raises the RegExp constructor's exception
CallMatchPatternThrows ==
  /\ pc = "idle"
  /\ matchPattern(pattern, filePath) = "SyntaxError"
  /\ call' = "matchPattern"
  /\ ret' = "SyntaxError"
  /\ pc' = "threw"
  /\ UNCHANGED <<pattern, filePath, ignorePatterns, treeVars, docVars, routeVars, lineVars, tagVars, pageVars, formVars>>

\* shouldIgnore(filePath, ignorePatterns) returns
CallShouldIgnore ==
  /\ pc = "idle"
  /\ shouldIgnore(filePath, ignorePatterns) # "SyntaxError"
  /\ call' = "shouldIgnore"
  /\ ret' = shouldIgnore(filePath, ignorePatterns)
  /\ pc' = "returned"
  /\ UNCHANGED <<pattern, filePath, ignorePatterns, treeVars, docVars, routeVars, lineVars, tagVars, pageVars, formVars>>

\* shouldIgnore(filePath, ignorePatterns) raises
CallShouldIgnoreThrows ==
  /\ pc = "idle"
  /\ shouldIgnore(filePath, ignorePatterns) = "SyntaxError"
  /\ call' = "shouldIgnore"
  /\ ret' = "SyntaxError"
  /\ pc' = "threw"
  /\ UNCHANGED <<pattern, filePath, ignorePatterns, treeVars, docVars, routeVars, lineVars, tagVars, pageVars, formVars>>

NextMatch ==
  \/ CallMatchPattern
  \/ CallMatchPatternThrows
  \/ CallShouldIgnore
  \/ CallShouldIgnoreThrows

SpecMatch == InitMatch /\ [][NextMatch]_vars

----------------------------------------------------------------------------
(* buildFileTree.  A node is [path, type]; the children array of a         *)
(* directory node is kept in `children` under the node's path.             *)

Digits == {"0", "1", "2", "3", "4", "5", "6", "7", "8", "9"}

DigitValue(c) ==
  CASE c = "0" -> 0 [] c = "1" -> 1 [] c = "2" -> 2 [] c = "3" -> 3
    [] c = "4" -> 4 [] c = "5" -> 5 [] c = "6" -> 6 [] c = "7" -> 7
    [] c = "8" -> 8 [] OTHER -> 9

RECURSIVE IntValue(_)
IntValue(s) ==
  IF s = <<>> THEN 0
  ELSE 10 * IntValue(SubSeq(s, 1, Len(s) - 1)) + DigitValue(s[Len(s)])

\* a property key that is a canonical array index (a decimal numeral without
\* leading zero below 2^32 - 1; every numeral of up to nine digits is one):
\* such keys are enumerated by Object.values in ascending numeric order,
\* before every other key
IsIntegerKey(k) ==
  /\ k # <<>>
  /\ \A i \in 1..Len(k) : k[i] \in Digits
  /\ (Len(k) = 1 \/ k[1] # "0")
  /\ Len(k) <= 9

HasKey(keys, k) == \E i \in 1..Len(keys) : keys[i] = k

\* an array-index key takes its place among the array-index keys of `keys`
RECURSIVE insertIndex(_, _)
insertIndex(keys, k) ==
  IF keys = <<>> \/ ~IsIntegerKey(Head(keys)) \/ IntValue(k) < IntValue(Head(keys))
  THEN <<k>> \o keys
  ELSE <<Head(keys)>> \o insertIndex(Tail(keys), k)

\* map[k] = node, on the key sequence kept in Object.values order
insertKey(keys, k) ==
  IF HasKey(keys, k) THEN keys
  ELSE IF IsIntegerKey(k) THEN insertIndex(keys, k)
  ELSE Append(keys, k)

\* item.path.split('/').length
depthOf(path) == Len(split(path))

\* depth test that lets entries one level below the bound through
tooDeepOffByOne(path, d) == d # -1 /\ depthOf(path) > d + 1

\* depth test that also rejects the entries exactly at the bound
tooDeepInclusive(path, d) == d # -1 /\ depthOf(path) >= d

tooDeep(path, d) == d # -1 /\ depthOf(path) > d

\* does some shouldIgnore call of buildFileTree raise
buildThrows(its, pats) ==
  \E i \in 1..Len(its) :
     /\ its[i].type \in {"tree", "blob"}
     /\ shouldIgnore(its[i].path, pats) = "SyntaxError"

\* first pass that creates a node for every directory entry within the depth
\* bound, ignored or not
RECURSIVE createDirsUnfiltered(_, _, _, _)
createDirsUnfiltered(its, pats, d, keys) ==
  IF its = <<>> THEN keys
  ELSE LET item == Head(its)
           kept == item.type = "tree" /\ ~tooDeep(item.path, d)
       IN createDirsUnfiltered(Tail(its), pats, d,
                               IF kept THEN insertKey(keys, item.path) ELSE keys)

\* first pass: the keys of `map` after the directory entries are visited
RECURSIVE createDirs(_, _, _, _)
createDirs(its, pats, d, keys) ==
  IF its = <<>> THEN keys
  ELSE LET item == Head(its)
           kept == /\ item.type = "tree"
                   /\ shouldIgnore(item.path, pats) = "false"
                   /\ ~tooDeep(item.path, d)
       IN createDirs(Tail(its), pats, d,
                     IF kept THEN insertKey(keys, item.path) ELSE keys)

\* attach that puts a node whose parent is not in `map` among the roots
attachOrphanToRoot(st, keys, n) ==
  LET parentPath == parentPathOf(n.path)
  IN IF parentPath # <<>> /\ HasKey(keys, parentPath)
     THEN [st EXCEPT !.children[parentPath] = Append(@, n)]
     ELSE [st EXCEPT !.root = Append(@, n)]

\* attach that pushes every node to the root array as well
attachAlsoToRoot(st, keys, n) ==
  LET parentPath == parentPathOf(n.path)
      rooted == [st EXCEPT !.root = Append(@, n)]
  IN IF parentPath # <<>> /\ HasKey(keys, parentPath)
     THEN [rooted EXCEPT !.children[parentPath] = Append(@, n)]
     ELSE rooted

\* attach that puts a file whose parent is not in `map` among the roots
attachOrphanFilesToRoot(st, keys, n) ==
  LET parentPath == parentPathOf(n.path)
  IN IF parentPath = <<>> THEN [st EXCEPT !.root = Append(@, n)]
     ELSE IF HasKey(keys, parentPath)
          THEN [st EXCEPT !.children[parentPath] = Append(@, n)]
          ELSE IF n.type = "file" THEN [st EXCEPT !.root = Append(@, n)]
          ELSE st

\* push node n into the root array or into its parent's children array
\* st = [root, children]; a node whose parent is not in `map` goes nowhere
attach(st, keys, n) ==
  LET parentPath == parentPathOf(n.path)
  IN IF parentPath = <<>> THEN [st EXCEPT !.root = Append(@, n)]
     ELSE IF HasKey(keys, parentPath)
          THEN [st EXCEPT !.children[parentPath] = Append(@, n)]
          ELSE st

\* second pass that wires the top-level directories only
RECURSIVE wireDirsTopLevelOnly(_, _, _)
wireDirsTopLevelOnly(todo, keys, st) ==
  IF todo = <<>> THEN st
  ELSE wireDirsTopLevelOnly(Tail(todo), keys,
         IF parentPathOf(Head(todo)) = <<>>
         THEN [st EXCEPT !.root = Append(@, [path |-> Head(todo), type |-> "dir"])]
         ELSE st)

\* second pass: Object.values(map).forEach
RECURSIVE wireDirs(_, _, _)
wireDirs(todo, keys, st) ==
  IF todo = <<>> THEN st
  ELSE wireDirs(Tail(todo), keys,
                attach(st, keys, [path |-> Head(todo), type |-> "dir"]))

\* third pass that attaches every file entry within the depth bound, ignored
\* or not
RECURSIVE addFilesUnfiltered(_, _, _, _, _)
addFilesUnfiltered(its, pats, d, keys, st) ==
  IF its = <<>> THEN st
  ELSE LET item == Head(its)
           kept == item.type = "blob" /\ ~tooDeep(item.path, d)
       IN addFilesUnfiltered(Tail(its), pats, d, keys,
                   IF kept THEN attach(st, keys, [path |-> item.path, type |-> "file"])
                   ELSE st)

\* third pass: the file entries
RECURSIVE addFiles(_, _, _, _, _)
addFiles(its, pats, d, keys, st) ==
  IF its = <<>> THEN st
  ELSE LET item == Head(its)
           kept == /\ item.type = "blob"
                   /\ shouldIgnore(item.path, pats) = "false"
                   /\ ~tooDeep(item.path, d)
       IN addFiles(Tail(its), pats, d, keys,
                   IF kept THEN attach(st, keys, [path |-> item.path, type |-> "file"])
                   ELSE st)

\* `root` and the children arrays before any node is pushed
emptyForest(keys) ==
  [root |-> <<>>, children |-> [k \in {keys[i] : i \in 1..Len(keys)} |-> <<>>]]

\* what the function leaves behind at `return root`
forestRecord(keys, st) == [keys |-> keys, root |-> st.root, children |-> st.children]

\* the second and third pass over the `map` of the first
wireAndFill(its, pats, d, keys) ==
  forestRecord(keys, addFiles(its, pats, d, keys, wireDirs(keys, keys, emptyForest(keys))))

\* the whole function: [keys, root, children] at `return root`
buildFileTree(its, pats, d) ==
  wireAndFill(its, pats, d, createDirs(its, pats, d, <<>>))

----------------------------------------------------------------------------
(* The forest as the callers see it.                                       *)

\* item.children of a node (absent or empty for a file node)
childrenOf(ch, n) == IF n.path \in DOMAIN ch THEN ch[n.path] ELSE <<>>

\* flattening that visits the later siblings of a node before its children
RECURSIVE flattenTreeSiblingsFirst(_, _)
flattenTreeSiblingsFirst(tree, ch) ==
  IF tree = <<>> THEN <<>>
  ELSE <<Head(tree)>> \o flattenTreeSiblingsFirst(Tail(tree), ch)
                      \o flattenTreeSiblingsFirst(childrenOf(ch, Head(tree)), ch)

\* flattenTree: pre-order, a node before its children
RECURSIVE flattenTree(_, _)
flattenTree(tree, ch) ==
  IF tree = <<>> THEN <<>>
  ELSE <<Head(tree)>> \o flattenTree(childrenOf(ch, Head(tree)), ch)
                      \o flattenTree(Tail(tree), ch)

SelectFiles(nodes) == SelectSeq(nodes, LAMBDA n : n.type = "file")

----------------------------------------------------------------------------
(* The line filter of generateFileContentMarkdown and of the file route.   *)

\* content.split('\n')
RECURSIVE splitLines(_)
splitLines(s) ==
  IF \A i \in 1..Len(s) : s[i] # "\n" THEN <<s>>
  ELSE LET i == CHOOSE k \in 1..Len(s) :
                  s[k] = "\n" /\ \A j \in 1..(k - 1) : s[j] # "\n"
       IN <<SubSeq(s, 1, i - 1)>> \o splitLines(SubSeq(s, i + 1, Len(s)))

\* filteredLines.join('\n')
RECURSIVE joinLines(_)
joinLines(lines) ==
  IF lines = <<>> THEN <<>>
  ELSE IF Len(lines) = 1 THEN lines[1]
  ELSE lines[1] \o <<"\n">> \o joinLines(Tail(lines))

\* lines.filter(line => !shouldIgnore(line, sourceIgnorePatterns))
keptLines(lines, pats) ==
  SelectSeq(lines, LAMBDA l : shouldIgnore(l, pats) = "false")

\* does a shouldIgnore call of the filter raise
linesThrow(lines, pats) ==
  \E i \in 1..Len(lines) : shouldIgnore(lines[i], pats) = "SyntaxError"

filterThrows(c, pats) == Len(pats) > 0 /\ linesThrow(splitLines(c), pats)

\* line filter that runs whatever the length of the rule list
filterContentUnguarded(c, pats) == joinLines(keptLines(splitLines(c), pats))

\* `filteredContent`: the content itself unless sourceIgnorePatterns.length > 0
filterContent(c, pats) ==
  IF Len(pats) > 0 THEN joinLines(keptLines(splitLines(c), pats)) ELSE c

----------------------------------------------------------------------------
(* parseRepoUrl and the responses of the routes.                           *)

GitHubCom == <<"g", "i", "t", "h", "u", "b", ".", "c", "o", "m", "/">>

\* length of the run of characters other than '/' that starts at position i
RECURSIVE segmentLen(_, _)
segmentLen(s, i) ==
  IF i > Len(s) \/ s[i] = "/" THEN 0 ELSE 1 + segmentLen(s, i + 1)

\* the positions at which /github\.com\/([^/]+)\/([^/]+)/ matches
matchStarts(url) ==
  {i \in 1..Len(url) :
     /\ i + 10 <= Len(url)
     /\ SubSeq(url, i, i + 10) = GitHubCom
     /\ segmentLen(url, i + 11) >= 1
     /\ i + 11 + segmentLen(url, i + 11) <= Len(url)
     /\ segmentLen(url, i + 12 + segmentLen(url, i + 11)) >= 1}

\* String.prototype.replace(sub, '') with a string pattern: first occurrence
removeFirst(s, sub) ==
  LET at == {i \in 1..(Len(s) - Len(sub) + 1) : SubSeq(s, i, i + Len(sub) - 1) = sub}
  IN IF at = {} THEN s
     ELSE SubSeq(s, 1, (CHOOSE i \in at : \A j \in at : i <= j) - 1)
            \o SubSeq(s, (CHOOSE i \in at : \A j \in at : i <= j) + Len(sub), Len(s))

\* the match object at the leftmost position i
repoInfoAt(url, i, ownerLen) ==
  [ok |-> TRUE,
   owner |-> SubSeq(url, i + 11, i + 10 + ownerLen),
   repo |-> removeFirst(SubSeq(url, i + 12 + ownerLen,
                               i + 11 + ownerLen + segmentLen(url, i + 12 + ownerLen)),
                        <<".", "g", "i", "t">>)]

\* parseRepoUrl: ok = FALSE stands for null
parseRepoUrl(url) ==
  IF matchStarts(url) = {} THEN [ok |-> FALSE, owner |-> <<>>, repo |-> <<>>]
  ELSE repoInfoAt(url, CHOOSE i \in matchStarts(url) : \A j \in matchStarts(url) : i <= j,
                  segmentLen(url, 11 + (CHOOSE i \in matchStarts(url) : \A j \in matchStarts(url) : i <= j)))

\* error response that carries what was built so far
ErrorResponseWithPartialResult(status) ==
  [status |-> status, error |-> TRUE, fileTree |-> TRUE, markdown |-> FALSE]

\* NextResponse.json({ error }, { status })
ErrorResponse(status) ==
  [status |-> status, error |-> TRUE, fileTree |-> FALSE, markdown |-> FALSE]

\* NextResponse.json({ repoInfo, defaultBranch, fileTree })
TreeResponse ==
  [status |-> 200, error |-> FALSE, fileTree |-> TRUE, markdown |-> FALSE]

\* NextResponse.json({ markdown })
MarkdownResponse ==
  [status |-> 200, error |-> FALSE, fileTree |-> FALSE, markdown |-> TRUE]

\* repoUrl values: absent, not a repository URL, owner only, owner and repo
UrlPool ==
  { <<>>,
    <<"x">>,
    GitHubCom \o <<"o">>,
    GitHubCom \o <<"o", "/", "r", ".", "g", "i", "t">> }

\* sourceIgnorePatterns of the markdown requests
SourceRuleChoices == { <<>>, << <<"[">> >> }

\* contents getFileContent resolves with in the markdown requests
FetchedPool == { <<"a">>, <<"[">> }

----------------------------------------------------------------------------
(* SpecLines: the line filter applied to a content, and applied again to   *)
(* its own result.                                                         *)

MaxLines == 3

LinePool ==
  { <<>>, <<"a">>, <<"b">>, <<"[">>, PackageLockJson }

\* contents of at most n lines
RECURSIVE LineLists(_)
LineLists(n) ==
  IF n = 1 THEN {<<l>> : l \in LinePool}
  ELSE LET shorter == LineLists(n - 1)
       IN shorter \cup {Append(ls, l) : ls \in shorter, l \in LinePool}

Contents == {joinLines(ls) : ls \in LineLists(MaxLines)}

LineRuleLists ==
  { <<>>,
    << <<>> >>,
    << <<"#", "a">> >>,
    << <<"a">> >>,
    << <<"!", "a">> >>,
    << <<"*">> >>,
    << <<"[">> >>,
    << <<"b">>, <<"[">> >> }

InitLines ==
  /\ PageInitial
  /\ FormInitial
  /\ content \in Contents
  /\ sourceIgnorePatterns \in LineRuleLists
  /\ filteredContent = <<>>
  /\ fileType = ""
  /\ language = ""
  /\ pattern = <<>>
  /\ filePath = <<>>
  /\ ignorePatterns = <<>>
  /\ items = <<>>
  /\ maxDepth = -1
  /\ map = <<>>
  /\ children = <<>>
  /\ root = <<>>
  /\ flatFiles = <<>>
  /\ nextFile = 1
  /\ sections = <<>>
  /\ fetches = <<>>
  /\ pc = "fetched"
  /\ call = "none"
  /\ ret = "none"
  /\ repoUrl = <<>>
  /\ response = NoResponse

\* the filter block runs to its end: `filteredContent` is what is emitted
FilterContent ==
  /\ pc = "fetched"
  /\ ~filterThrows(content, sourceIgnorePatterns)
  /\ filteredContent' = filterContent(content, sourceIgnorePatterns)
  /\ pc' = "filtered"
  /\ UNCHANGED <<pattern, filePath, ignorePatterns, treeVars, docVars, call, ret, routeVars, sourceIgnorePatterns, content, tagVars, pageVars, formVars>>

\* a shouldIgnore call of the filter raises: nothing is emitted
FilterContentThrows ==
  /\ pc = "fetched"
  /\ filterThrows(content, sourceIgnorePatterns)
  /\ pc' = "threw"
  /\ UNCHANGED <<pattern, filePath, ignorePatterns, treeVars, docVars, call, ret, routeVars, lineVars, tagVars, pageVars, formVars>>

\* the emitted content goes through the filter block again, same rules
FilterAgain ==
  /\ pc = "filtered"
  /\ ~filterThrows(filteredContent, sourceIgnorePatterns)
  /\ call' = "filterContent"
  /\ ret' = filterContent(filteredContent, sourceIgnorePatterns)
  /\ pc' = "refiltered"
  /\ UNCHANGED <<pattern, filePath, ignorePatterns, treeVars, docVars, routeVars, lineVars, tagVars, pageVars, formVars>>

NextLines ==
  \/ FilterContent
  \/ FilterContentThrows
  \/ FilterAgain

SpecLines == InitLines /\ [][NextLines]_vars

----------------------------------------------------------------------------
(* SpecTag: getFileType and the language tag generateFileContentMarkdown   *)
(* puts on the fenced block.                                               *)

UpperCaseLetters == <<"A", "B", "C", "D", "E", "F", "G", "H", "I", "J", "K", "L", "M", "N", "O", "P", "Q", "R", "S", "T", "U", "V", "W", "X", "Y", "Z">>
LowerCaseLetters == <<"a", "b", "c", "d", "e", "f", "g", "h", "i", "j", "k", "l", "m", "n", "o", "p", "q", "r", "s", "t", "u", "v", "w", "x", "y", "z">>

\* String.prototype.toLowerCase, on the letters A to Z
toLowerCase(s) ==
  [i \in 1..Len(s) |->
     IF \E k \in 1..26 : UpperCaseLetters[k] = s[i]
     THEN LowerCaseLetters[CHOOSE k \in 1..26 : UpperCaseLetters[k] = s[i]]
     ELSE s[i]]

\* s.split('.').pop(): what follows the last '.', the whole string without one
RECURSIVE lastDotPart(_)
lastDotPart(s) ==
  IF \A i \in 1..Len(s) : s[i] # "." THEN s
  ELSE lastDotPart(SubSeq(s, (CHOOSE k \in 1..Len(s) :
                                 s[k] = "." /\ \A j \in 1..(k - 1) : s[j] # ".") + 1, Len(s)))

codeExtensions ==
  << <<<<"j", "s">>, "javascript">>,
     <<<<"j", "s", "x">>, "javascript">>,
     <<<<"t", "s">>, "typescript">>,
     <<<<"t", "s", "x">>, "typescript">>,
     <<<<"p", "y">>, "python">>,
     <<<<"r", "b">>, "ruby">>,
     <<<<"j", "a", "v", "a">>, "java">>,
     <<<<"c">>, "c">>,
     <<<<"c", "p", "p">>, "cpp">>,
     <<<<"c", "s">>, "csharp">>,
     <<<<"g", "o">>, "go">>,
     <<<<"r", "s">>, "rust">>,
     <<<<"p", "h", "p">>, "php">>,
     <<<<"s", "w", "i", "f", "t">>, "swift">>,
     <<<<"k", "t">>, "kotlin">>,
     <<<<"s", "c", "a", "l", "a">>, "scala">>,
     <<<<"d", "a", "r", "t">>, "dart">>,
     <<<<"s", "h">>, "bash">>,
     <<<<"b", "a", "t">>, "batch">>,
     <<<<"p", "s", "1">>, "powershell">>,
     <<<<"s", "q", "l">>, "sql">>,
     <<<<"r">>, "r">>,
     <<<<"m">>, "matlab">>,
     <<<<"p", "l">>, "perl">>,
     <<<<"l", "u", "a">>, "lua">>,
     <<<<"e", "x">>, "elixir">>,
     <<<<"e", "x", "s">>, "elixir">>,
     <<<<"e", "r", "l">>, "erlang">>,
     <<<<"c", "l", "j">>, "clojure">>,
     <<<<"h", "s">>, "haskell">>,
     <<<<"f", "s">>, "fsharp">>,
     <<<<"m", "l">>, "ocaml">>,
     <<<<"g", "r", "o", "o", "v", "y">>, "groovy">>,
     <<<<"j", "l">>, "julia">> >>

markupExtensions ==
  << <<<<"h", "t", "m", "l">>, "html">>,
     <<<<"h", "t", "m">>, "html">>,
     <<<<"x", "m", "l">>, "xml">>,
     <<<<"c", "s", "s">>, "css">>,
     <<<<"s", "c", "s", "s">>, "scss">>,
     <<<<"s", "a", "s", "s">>, "sass">>,
     <<<<"l", "e", "s", "s">>, "less">>,
     <<<<"s", "v", "g">>, "svg">>,
     <<<<"m", "d">>, "markdown">>,
     <<<<"m", "a", "r", "k", "d", "o", "w", "n">>, "markdown">>,
     <<<<"j", "s", "o", "n">>, "json">>,
     <<<<"y", "a", "m", "l">>, "yaml">>,
     <<<<"y", "m", "l">>, "yaml">>,
     <<<<"t", "o", "m", "l">>, "toml">> >>

docExtensions ==
  << <<<<"t", "x", "t">>, "text">>,
     <<<<"p", "d", "f">>, "pdf">>,
     <<<<"d", "o", "c">>, "word">>,
     <<<<"d", "o", "c", "x">>, "word">>,
     <<<<"x", "l", "s">>, "excel">>,
     <<<<"x", "l", "s", "x">>, "excel">>,
     <<<<"p", "p", "t">>, "powerpoint">>,
     <<<<"p", "p", "t", "x">>, "powerpoint">>,
     <<<<"o", "d", "t">>, "openoffice">>,
     <<<<"o", "d", "s">>, "openoffice">>,
     <<<<"o", "d", "p">>, "openoffice">> >>

imageExtensions ==
  << <<<<"j", "p", "g">>, "image">>,
     <<<<"j", "p", "e", "g">>, "image">>,
     <<<<"p", "n", "g">>, "image">>,
     <<<<"g", "i", "f">>, "image">>,
     <<<<"b", "m", "p">>, "image">>,
     <<<<"t", "i", "f", "f">>, "image">>,
     <<<<"w", "e", "b", "p">>, "image">>,
     <<<<"i", "c", "o">>, "image">> >>

otherExtensions ==
  << <<<<"z", "i", "p">>, "archive">>,
     <<<<"r", "a", "r">>, "archive">>,
     <<<<"t", "a", "r">>, "archive">>,
     <<<<"g", "z">>, "archive">>,
     <<<<"7", "z">>, "archive">>,
     <<<<"e", "x", "e">>, "executable">>,
     <<<<"d", "l", "l">>, "binary">>,
     <<<<"s", "o">>, "binary">>,
     <<<<"a">>, "binary">>,
     <<<<"o">>, "binary">>,
     <<<<"c", "l", "a", "s", "s">>, "binary">>,
     <<<<"j", "a", "r">>, "binary">>,
     <<<<"w", "a", "r">>, "binary">>,
     <<<<"e", "a", "r">>, "binary">> >>

configExtensions ==
  << <<<<"i", "n", "i">>, "config">>,
     <<<<"c", "o", "n", "f">>, "config">>,
     <<<<"c", "f", "g">>, "config">>,
     <<<<"c", "o", "n", "f", "i", "g">>, "config">>,
     <<<<"e", "n", "v">>, "config">> >>

\* the special file names, in the order of their endsWith tests
specialNames ==
  << <<<<"p", "a", "c", "k", "a", "g", "e", ".", "j", "s", "o", "n">>, "package-json">>,
     <<<<"t", "s", "c", "o", "n", "f", "i", "g", ".", "j", "s", "o", "n">>, "tsconfig">>,
     <<<<".", "g", "i", "t", "i", "g", "n", "o", "r", "e">>, "gitignore">>,
     <<<<".", "G", "i", "t", "h", "u", "b", "D", "o", "c", "s", "i", "g", "n", "o", "r", "e">>, "githubdocsignore">>,
     <<<<"D", "o", "c", "k", "e", "r", "f", "i", "l", "e">>, "dockerfile">>,
     <<<<"d", "o", "c", "k", "e", "r", "-", "c", "o", "m", "p", "o", "s", "e", ".", "y", "m", "l">>, "docker-compose">>,
     <<<<"d", "o", "c", "k", "e", "r", "-", "c", "o", "m", "p", "o", "s", "e", ".", "y", "a", "m", "l">>, "docker-compose">>,
     <<<<"M", "a", "k", "e", "f", "i", "l", "e">>, "makefile">>,
     <<<<"R", "E", "A", "D", "M", "E", ".", "m", "d">>, "readme">>,
     <<<<"L", "I", "C", "E", "N", "S", "E">>, "license">> >>

\* keys every object literal inherits that toLowerCase leaves unchanged
inheritedKeys == {<<"c", "o", "n", "s", "t", "r", "u", "c", "t", "o", "r">>, <<"_", "_", "p", "r", "o", "t", "o", "_", "_">>}

\* table[extension] for an own key of the table, "" (undefined) otherwise
lookup(table, extension) ==
  IF \E i \in 1..Len(table) : table[i][1] = extension
  THEN table[CHOOSE i \in 1..Len(table) : table[i][1] = extension][2]
  ELSE ""

\* the first of the given values that is not "" (a chain of ||)
RECURSIVE firstTruthy(_)
firstTruthy(values) ==
  IF values = <<>> THEN ""
  ELSE IF Head(values) # "" THEN Head(values) ELSE firstTruthy(Tail(values))

\* the chain of table lookups; an inherited key gives a value that is not a
\* string, written "[inherited]"
byExtension(extension) ==
  IF extension \in inheritedKeys THEN "[inherited]"
  ELSE firstTruthy(<< lookup(codeExtensions, extension),
                      lookup(markupExtensions, extension),
                      lookup(docExtensions, extension),
                      lookup(imageExtensions, extension),
                      lookup(otherExtensions, extension),
                      lookup(configExtensions, extension),
                      "unknown" >>)

getFileType(path) ==
  IF \E i \in 1..Len(specialNames) : endsWith(path, specialNames[i][1])
  THEN specialNames[CHOOSE i \in 1..Len(specialNames) :
                      /\ endsWith(path, specialNames[i][1])
                      /\ \A j \in 1..(i - 1) : ~endsWith(path, specialNames[j][1])][2]
  ELSE byExtension(toLowerCase(lastDotPart(path)))

\* the switch on fileType that sets `language`
languageOf(type) ==
  IF type \in {"javascript", "typescript", "python", "html", "css", "json",
               "markdown", "yaml"}
  THEN type
  ELSE ""

TagDirs == { <<>>, <<"s", "r", "c", "/">> }

TagStems ==
  { <<"a">>, <<"p", "a", "c", "k", "a", "g", "e">>, <<"R", "E", "A", "D", "M", "E">>, <<"t", "s", "c", "o", "n", "f", "i", "g">>, <<"d", "o", "c", "k", "e", "r", "-", "c", "o", "m", "p", "o", "s", "e">>, <<"D", "o", "c", "k", "e", "r", "f", "i", "l", "e">> }

TagSuffixes ==
  { <<>>, <<".", "j", "s", "o", "n">>, <<".", "m", "d">>, <<".", "y", "m", "l">>, <<".", "t", "s">>, <<".", "J", "S", "O", "N">>, <<".", "r", "b">>, <<".", "x", "y", "z">>, <<".", "c", "o", "n", "s", "t", "r", "u", "c", "t", "o", "r">> }

TagPaths == {d \o s \o x : d \in TagDirs, s \in TagStems, x \in TagSuffixes}

InitTag ==
  /\ PageInitial
  /\ FormInitial
  /\ filePath \in TagPaths
  /\ fileType = ""
  /\ language = ""
  /\ pattern = <<>>
  /\ ignorePatterns = <<>>
  /\ items = <<>>
  /\ maxDepth = -1
  /\ map = <<>>
  /\ children = <<>>
  /\ root = <<>>
  /\ flatFiles = <<>>
  /\ nextFile = 1
  /\ sections = <<>>
  /\ fetches = <<>>
  /\ pc = "idle"
  /\ call = "none"
  /\ ret = "none"
  /\ repoUrl = <<>>
  /\ response = NoResponse
  /\ sourceIgnorePatterns = <<>>
  /\ content = <<>>
  /\ filteredContent = <<>>

\* const fileType = getFileType(filePath)
GetFileType ==
  /\ pc = "idle"
  /\ fileType' = getFileType(filePath)
  /\ pc' = "typed"
  /\ UNCHANGED <<pattern, filePath, ignorePatterns, treeVars, docVars, call, ret, routeVars, lineVars, language, pageVars, formVars>>

\* the switch, and the opening fence with the language tag
ChooseLanguage ==
  /\ pc = "typed"
  /\ language' = languageOf(fileType)
  /\ pc' = "tagged"
  /\ UNCHANGED <<pattern, filePath, ignorePatterns, treeVars, docVars, call, ret, routeVars, lineVars, fileType, pageVars, formVars>>

NextTag ==
  \/ GetFileType
  \/ ChooseLanguage

SpecTag == InitTag /\ [][NextTag]_vars

----------------------------------------------------------------------------
(* Inputs of the tree and markdown requests.                               *)

EntryPool ==
  { [path |-> <<"a">>, type |-> "tree"],
    [path |-> <<"a", "/", "b">>, type |-> "tree"],
    [path |-> <<"a", "/", "b", "/", "c", ".", "t", "x", "t">>, type |-> "blob"],
    [path |-> <<"a", "/", "b", ".", "t", "x", "t">>, type |-> "blob"],
    [path |-> <<"a", "/">> \o PackageLockJson, type |-> "blob"],
    [path |-> PackageLockJson, type |-> "blob"],
    [path |-> <<"c", ".", "t", "x", "t">>, type |-> "blob"],
    [path |-> <<"1">>, type |-> "tree"] }

\* entry lists of at most n entries with pairwise distinct paths, in any order
RECURSIVE EntryLists(_)
EntryLists(n) ==
  IF n = 0 THEN {<<>>}
  ELSE LET shorter == EntryLists(n - 1)
       IN shorter \cup
          {Append(l, e) : l \in {s \in shorter : Len(s) = n - 1},
                          e \in EntryPool}

DistinctPaths(its) ==
  \A i, j \in 1..Len(its) : its[i].path = its[j].path => i = j

TreeRuleLists ==
  { <<>>,
    << <<"a">> >>,
    << <<"!">> \o PackageLockJson >>,
    << <<"[">> >>,
    << <<"b", ".", "t", "x", "t">>, <<"!", "c", ".", "t", "x", "t">> >> }

DepthValues == (-2)..MaxDepthBound

\* rules and candidates of the direct shouldIgnore queries
RulePool ==
  { <<"*", ".", "l", "o", "g">>,
    <<"!", "k", "e", "e", "p", ".", "l", "o", "g">>,
    <<"k", "e", "e", "p", ".", "l", "o", "g">>,
    <<"#", "k", "e", "e", "p", ".", "l", "o", "g">>,
    <<>>,
    <<"!">> \o PackageLockJson,
    <<"[">>,
    <<"/", "n", "o", "d", "e", "_", "m", "o", "d", "u", "l", "e", "s", "/">>,
    <<"n", "o", "d", "e", "_", "m", "o", "d", "u", "l", "e", "s", "/">> }

RECURSIVE RuleLists(_)
RuleLists(n) ==
  IF n = 0 THEN {<<>>}
  ELSE LET shorter == RuleLists(n - 1)
       IN shorter \cup {Append(l, r) : l \in shorter, r \in RulePool}

CandidatePool ==
  { <<"k", "e", "e", "p", ".", "l", "o", "g">>,
    <<"o", "t", "h", "e", "r", ".", "l", "o", "g">>,
    <<"a", "/", "k", "e", "e", "p", ".", "l", "o", "g">>,
    <<"a">>,
    PackageLockJson,
    <<"a", "/">> \o PackageLockJson,
    <<"#", "k", "e", "e", "p", ".", "l", "o", "g">>,
    <<"n", "o", "d", "e", "_", "m", "o", "d", "u", "l", "e", "s">> }

----------------------------------------------------------------------------
(* Spec: a direct shouldIgnore query, or a request to the tree endpoint or *)
(* to the markdown endpoint.                                               *)

InitQuery ==
  /\ pattern = <<>>
  /\ filePath \in CandidatePool
  /\ ignorePatterns \in RuleLists(MaxRules)
  /\ maxDepth = -1
  /\ repoUrl = <<>>
  /\ pc = "idle"

\* the request body: repoUrl, ignorePatterns, maxDepth
InitRequest ==
  /\ pattern = <<>>
  /\ filePath = <<>>
  /\ ignorePatterns \in TreeRuleLists
  /\ maxDepth \in DepthValues
  /\ repoUrl \in UrlPool
  /\ pc = "received"

Init ==
  /\ PageInitial
  /\ FormInitial
  /\ InitQuery \/ InitRequest
  /\ items = <<>>
  /\ map = <<>>
  /\ children = <<>>
  /\ root = <<>>
  /\ flatFiles = <<>>
  /\ nextFile = 1
  /\ sections = <<>>
  /\ fetches = <<>>
  /\ call = "none"
  /\ ret = "none"
  /\ response = NoResponse
  /\ sourceIgnorePatterns = <<>>
  /\ content = <<>>
  /\ filteredContent = <<>>
  /\ fileType = ""
  /\ language = ""

\* `!repoUrl`, or parseRepoUrl(repoUrl) returns null: status 400
RejectRequest ==
  /\ pc = "received"
  /\ repoUrl = <<>> \/ ~parseRepoUrl(repoUrl).ok
  /\ response' = ErrorResponse(400)
  /\ pc' = "error400"
  /\ UNCHANGED <<pattern, filePath, ignorePatterns, treeVars, docVars, call, ret, repoUrl, lineVars, tagVars, pageVars, formVars>>

\* getDefaultBranch or getRepoTree (getRepositoryInfo, getRepositoryContributors
\* on the markdown endpoint) rejects: the catch block answers with status 500
RetrievalFails ==
  /\ pc = "received"
  /\ repoUrl # <<>> /\ parseRepoUrl(repoUrl).ok
  /\ response' = ErrorResponse(500)
  /\ pc' = "error500"
  /\ UNCHANGED <<pattern, filePath, ignorePatterns, treeVars, docVars, call, ret, repoUrl, lineVars, tagVars, pageVars, formVars>>

\* the awaited retrievals resolve; getRepoTree gives the flat entry list
RetrievalSucceeds ==
  /\ pc = "received"
  /\ repoUrl # <<>> /\ parseRepoUrl(repoUrl).ok
  /\ items' \in {l \in EntryLists(MaxItems) : DistinctPaths(l)}
  /\ pc' = "request"
  /\ UNCHANGED <<pattern, filePath, ignorePatterns, maxDepth, map, children, root, docVars, call, ret, routeVars, lineVars, tagVars, pageVars, formVars>>

\* buildFileTree(tree, ignorePatterns, effectiveMaxDepth) returns the forest
BuildFileTree ==
  /\ pc = "request"
  /\ ~buildThrows(items, ignorePatterns)
  /\ \E built \in {buildFileTree(items, ignorePatterns, maxDepth)} :
        /\ map' = built.keys
        /\ root' = built.root
        /\ children' = built.children
  /\ pc' = "treeBuilt"
  /\ UNCHANGED <<pattern, filePath, ignorePatterns, items, maxDepth, docVars, call, ret, routeVars, lineVars, tagVars, pageVars, formVars>>

\* a shouldIgnore call of buildFileTree raises: the route answers with 500
BuildFileTreeThrows ==
  /\ pc = "request"
  /\ buildThrows(items, ignorePatterns)
  /\ response' = ErrorResponse(500)
  /\ pc' = "error500"
  /\ UNCHANGED <<pattern, filePath, ignorePatterns, treeVars, docVars, call, ret, repoUrl, lineVars, tagVars, pageVars, formVars>>

\* the tree endpoint returns { repoInfo, defaultBranch, fileTree }
RespondTree ==
  /\ pc = "treeBuilt"
  /\ response' = TreeResponse
  /\ pc' = "responded"
  /\ UNCHANGED <<pattern, filePath, ignorePatterns, treeVars, docVars, call, ret, repoUrl, lineVars, tagVars, pageVars, formVars>>

\* the markdown endpoint calls generateRepositoryMarkdown with the
\* sourceIgnorePatterns of the body: it flattens the forest and keeps the
\* file nodes
StartMarkdown ==
  /\ pc = "treeBuilt"
  /\ sourceIgnorePatterns' \in SourceRuleChoices
  /\ flatFiles' = SelectFiles(flattenTree(root, children))
  /\ nextFile' = 1
  /\ pc' = "assembling"
  /\ UNCHANGED <<pattern, filePath, ignorePatterns, treeVars, sections, fetches, call, ret, routeVars, content, filteredContent, tagVars, pageVars, formVars>>

\* loop step that starts the fetch of the next file and goes on without
\* awaiting it
NextFileWithoutAwait ==
  /\ pc = "assembling"
  /\ nextFile <= Len(flatFiles)
  /\ nextFile' = nextFile + 1
  /\ fetches' = Append(fetches, [path |-> flatFiles[nextFile].path, settled |-> FALSE])
  /\ pc' = "assembling"
  /\ UNCHANGED <<pattern, filePath, ignorePatterns, treeVars, flatFiles, sections, call, ret, routeVars, lineVars, tagVars, pageVars, formVars>>

\* the loop takes the next file: an ignored one is skipped, any other one
\* enters generateFileContentMarkdown, which awaits getFileContent
NextFile ==
  /\ pc = "assembling"
  /\ nextFile <= Len(flatFiles)
  /\ IF shouldIgnore(flatFiles[nextFile].path, ignorePatterns) = "true"
     THEN /\ nextFile' = nextFile + 1
          /\ fetches' = fetches
          /\ pc' = "assembling"
     ELSE /\ nextFile' = nextFile
          /\ fetches' = Append(fetches, [path |-> flatFiles[nextFile].path, settled |-> FALSE])
          /\ pc' = "fetching"
  /\ UNCHANGED <<pattern, filePath, ignorePatterns, treeVars, flatFiles, sections, call, ret, routeVars, lineVars, tagVars, pageVars, formVars>>

\* getFileContent resolves: heading and fenced code block, unless the line
\* filter raises inside the try block, which the catch turns into the
\* failure placeholder
FetchSucceeds ==
  /\ pc = "fetching"
  /\ \E fetched \in FetchedPool :
        sections' = Append(sections,
                      [path |-> flatFiles[nextFile].path,
                       kind |-> IF filterThrows(fetched, sourceIgnorePatterns)
                                THEN "placeholder" ELSE "code",
                       fetched |-> TRUE])
  /\ fetches' = [fetches EXCEPT ![Len(fetches)].settled = TRUE]
  /\ nextFile' = nextFile + 1
  /\ pc' = "assembling"
  /\ UNCHANGED <<pattern, filePath, ignorePatterns, treeVars, flatFiles, call, ret, routeVars, lineVars, tagVars, pageVars, formVars>>

\* getFileContent rejects: heading and failure placeholder
FetchFails ==
  /\ pc = "fetching"
  /\ sections' = Append(sections,
                   [path |-> flatFiles[nextFile].path, kind |-> "placeholder",
                    fetched |-> FALSE])
  /\ fetches' = [fetches EXCEPT ![Len(fetches)].settled = TRUE]
  /\ nextFile' = nextFile + 1
  /\ pc' = "assembling"
  /\ UNCHANGED <<pattern, filePath, ignorePatterns, treeVars, flatFiles, call, ret, routeVars, lineVars, tagVars, pageVars, formVars>>

\* the loop is over: `return markdown`, and the route returns { markdown }
FinishMarkdown ==
  /\ pc = "assembling"
  /\ nextFile > Len(flatFiles)
  /\ response' = MarkdownResponse
  /\ pc' = "responded"
  /\ UNCHANGED <<pattern, filePath, ignorePatterns, treeVars, docVars, call, ret, repoUrl, lineVars, tagVars, pageVars, formVars>>

Next ==
  \/ CallShouldIgnore
  \/ CallShouldIgnoreThrows
  \/ RejectRequest
  \/ RetrievalFails
  \/ RetrievalSucceeds
  \/ BuildFileTree
  \/ BuildFileTreeThrows
  \/ RespondTree
  \/ StartMarkdown
  \/ NextFile
  \/ FetchSucceeds
  \/ FetchFails
  \/ FinishMarkdown

Spec == Init /\ [][Next]_vars

\* SpecTree: the requests to the tree endpoint alone, from the body to the
\* response that carries the forest
InitTree == Init /\ pc = "received"

NextTree ==
  \/ RejectRequest
  \/ RetrievalFails
  \/ RetrievalSucceeds
  \/ BuildFileTree
  \/ BuildFileTreeThrows
  \/ RespondTree

SpecTree == InitTree /\ [][NextTree]_vars

----------------------------------------------------------------------------
(* SpecHome: the home page.  handleRepoSubmit runs its three fetches one   *)
(* after the other; handleFileClick starts a fetch per click, and the      *)
(* responses of the clicks arrive in any order.                            *)

MaxClicks == 3
MaxSubmits == 2

\* the server-side variables, which the page does not touch
ServerAtRest ==
  /\ pattern = <<>>
  /\ filePath = <<>>
  /\ ignorePatterns = <<>>
  /\ items = <<>>
  /\ map = <<>>
  /\ children = <<>>
  /\ root = <<>>
  /\ flatFiles = <<>>
  /\ nextFile = 1
  /\ sections = <<>>
  /\ fetches = <<>>
  /\ pc = "idle"
  /\ call = "none"
  /\ ret = "none"
  /\ response = NoResponse
  /\ sourceIgnorePatterns = <<>>
  /\ content = <<>>
  /\ filteredContent = <<>>
  /\ fileType = ""
  /\ language = ""

\* what RepoForm can pass: a non-blank URL and a depth
SubmitUrls == {<<"u">>, <<"v">>}
SubmitDepths == {1, 10}

\* `treeData.fileTree || []`, as the file paths the tree shows
TreePool == {<<>>, <<"a", "b">>}

\* `markdownData.markdown || ''`
MarkdownPool == {"", "# doc"}

\* in Home, repoUrl and maxDepth are the page's state of the same names
InitHome ==
  /\ PageInitial
  /\ FormInitial
  /\ ServerAtRest
  /\ repoUrl = <<>>
  /\ maxDepth = 1

\* the awaited fetch settles with `outcome`
settle(outcome) == [requests EXCEPT ![Len(requests)].outcome = outcome]

\* the awaited fetch was ok and the next one is issued
issue(name) == Append(settle("ok"), [name |-> name, outcome |-> "pending"])

\* the setters before the try block, and the first fetch.  The submit
\* button is disabled while isLoading.
HandleRepoSubmit ==
  /\ ~isLoading
  /\ submits < MaxSubmits
  /\ \E url \in SubmitUrls, d \in SubmitDepths :
       /\ repoUrl' = url
       /\ maxDepth' = d
  /\ isLoading' = TRUE
  /\ error' = FALSE
  /\ fileTree' = <<>>
  /\ markdown' = ""
  /\ selectedFile' = ""
  /\ fileContent' = NoContent
  /\ step' = "info"
  /\ requests' = << [name |-> "info", outcome |-> "pending"] >>
  /\ submits' = submits + 1
  /\ UNCHANGED <<repoInfo, inFlight, clicks, formVars>>
  /\ UNCHANGED <<pattern, filePath, ignorePatterns, items, map, children, root,
                 docVars, pc, call, ret, response, lineVars, tagVars>>

\* a throw inside the try block without the finally block
CaughtWithoutFinally ==
  /\ error' = TRUE
  /\ step' = "idle"
  /\ requests' = settle("failed")
  /\ UNCHANGED isLoading

\* a throw inside the try block: catch sets the error, finally ends loading
Caught ==
  /\ error' = TRUE
  /\ isLoading' = FALSE
  /\ step' = "idle"
  /\ requests' = settle("failed")

\* everything the try block never touches
SubmitFrame ==
  /\ UNCHANGED <<selectedFile, fileContent, inFlight, clicks, submits, formVars>>
  /\ UNCHANGED <<pattern, filePath, ignorePatterns, treeVars, docVars, pc,
                 call, ret, routeVars, lineVars, tagVars>>

\* infoResponse.ok: setRepoInfo, then the tree fetch
InfoSucceeds ==
  /\ step = "info"
  /\ repoInfo' = TRUE
  /\ step' = "tree"
  /\ requests' = issue("tree")
  /\ UNCHANGED <<isLoading, error, fileTree, markdown>>
  /\ SubmitFrame

\* !infoResponse.ok, or the fetch rejects
InfoFails ==
  /\ step = "info"
  /\ Caught
  /\ UNCHANGED <<repoInfo, fileTree, markdown>>
  /\ SubmitFrame

\* treeResponse.ok: setFileTree, then the markdown fetch
TreeSucceeds ==
  /\ step = "tree"
  /\ \E t \in TreePool : fileTree' = t
  /\ step' = "markdown"
  /\ requests' = issue("markdown")
  /\ UNCHANGED <<isLoading, error, repoInfo, markdown>>
  /\ SubmitFrame

\* !treeResponse.ok, or the fetch rejects
TreeFails ==
  /\ step = "tree"
  /\ Caught
  /\ UNCHANGED <<repoInfo, fileTree, markdown>>
  /\ SubmitFrame

\* markdownResponse.ok: setMarkdown, then finally
MarkdownSucceeds ==
  /\ step = "markdown"
  /\ \E m \in MarkdownPool : markdown' = m
  /\ isLoading' = FALSE
  /\ step' = "idle"
  /\ requests' = settle("ok")
  /\ UNCHANGED <<error, repoInfo, fileTree>>
  /\ SubmitFrame

\* !markdownResponse.ok, or the fetch rejects
MarkdownFails ==
  /\ step = "markdown"
  /\ Caught
  /\ UNCHANGED <<repoInfo, fileTree, markdown>>
  /\ SubmitFrame

\* everything handleFileClick never touches
ClickFrame ==
  /\ UNCHANGED <<isLoading, repoInfo, fileTree, markdown, error, step,
                 requests, submits, formVars>>
  /\ UNCHANGED <<pattern, filePath, ignorePatterns, treeVars, docVars, pc,
                 call, ret, routeVars, lineVars, tagVars>>

\* a click on a file of the tree shown: the setters and the fetch
HandleFileClick ==
  /\ clicks < MaxClicks
  /\ \E i \in 1..Len(fileTree) :
       /\ selectedFile' = fileTree[i]
       /\ inFlight' = inFlight \cup {[path |-> fileTree[i], click |-> clicks + 1]}
  /\ fileContent' = NoContent
  /\ clicks' = clicks + 1
  /\ ClickFrame

\* the continuation of one click after its await: setFileContent(content)
FileResponseArrives ==
  /\ \E r \in inFlight :
       /\ fileContent' = [kind |-> "content", path |-> r.path, click |-> r.click]
       /\ inFlight' = inFlight \ {r}
  /\ UNCHANGED <<selectedFile, clicks>>
  /\ ClickFrame

\* its catch block: setFileContent(the failure message)
FileRequestFails ==
  /\ \E r \in inFlight :
       /\ fileContent' = [kind |-> "failure", path |-> r.path, click |-> r.click]
       /\ inFlight' = inFlight \ {r}
  /\ UNCHANGED <<selectedFile, clicks>>
  /\ ClickFrame

\* the awaited fetch of handleRepoSubmit settles
SubmitSettles ==
  \/ InfoSucceeds
  \/ InfoFails
  \/ TreeSucceeds
  \/ TreeFails
  \/ MarkdownSucceeds
  \/ MarkdownFails

NextHome ==
  \/ HandleRepoSubmit
  \/ InfoSucceeds
  \/ InfoFails
  \/ TreeSucceeds
  \/ TreeFails
  \/ MarkdownSucceeds
  \/ MarkdownFails
  \/ HandleFileClick
  \/ FileResponseArrives
  \/ FileRequestFails

SpecHome == InitHome /\ [][NextHome]_vars

\* every fetch the page awaits settles, with a response or a rejection
FairSpecHome == SpecHome /\ WF_vars(SubmitSettles)

----------------------------------------------------------------------------
(* SpecForm: RepoForm.  The URL field, the depth buttons and the depth     *)
(* field change the form's state; submitting calls onSubmit.               *)

\* what can be typed or pasted into the URL field, or set by handleRepoSelect
UrlInputs ==
  { <<>>, <<" ">>, <<" ", "\t">>, <<"u">>, <<" ", "u", " ">> }

\* `e.target.value` of the depth field
DepthInputs ==
  { <<>>, <<"0">>, <<"1">>, <<"5">>, <<"1", "0">>, <<"1", "1">>,
    <<"9", "9">>, <<"-", "3">>, <<"-", "0">>, <<"+", "4">>, <<" ", "7">>,
    <<"3", ".", "7">>, <<"1", "e", "3">>, <<"a", "b", "c">>, <<"-">>,
    <<"0", "x", "1", "F">>, <<"0", "x">> }

HexDigits == <<"0", "1", "2", "3", "4", "5", "6", "7", "8", "9",
               "a", "b", "c", "d", "e", "f">>

\* the value of one digit in the radix, or -1 when it is not a digit of it
digitIn(c, radix) ==
  LET lower == toLowerCase(<<c>>)[1]
      hits == {i \in 1..radix : HexDigits[i] = lower}
  IN IF hits = {} THEN -1 ELSE (CHOOSE i \in hits : TRUE) - 1

\* the longest prefix of digits of the radix, read as a number from `acc`;
\* `seen` tells whether there was a digit at all
RECURSIVE readDigits(_, _, _, _)
readDigits(s, radix, acc, seen) ==
  IF s # <<>> /\ digitIn(Head(s), radix) # -1
  THEN readDigits(Tail(s), radix, acc * radix + digitIn(Head(s), radix), TRUE)
  ELSE [nan |-> ~seen, value |-> acc]

\* parseInt(string) without a radix: leading white space, a sign, a 0x
\* prefix, then the digits; NaN when there is none
parseInt(string) ==
  LET s == trimStart(string)
      negative == s # <<>> /\ Head(s) = "-"
      unsigned == IF s # <<>> /\ Head(s) \in {"+", "-"} THEN Tail(s) ELSE s
      hex == Len(unsigned) >= 2 /\ unsigned[1] = "0" /\ unsigned[2] \in {"x", "X"}
      read == IF hex THEN readDigits(Tail(Tail(unsigned)), 16, 0, FALSE)
                     ELSE readDigits(unsigned, 10, 0, FALSE)
  IN IF negative /\ ~read.nan THEN [nan |-> FALSE, value |-> 0 - read.value]
                              ELSE read

\* x || 1 on a number: NaN and 0 are falsy
orOne(x) == IF x.nan \/ x.value = 0 THEN 1 ELSE x.value

min(a, b) == IF a <= b THEN a ELSE b
max(a, b) == IF a >= b THEN a ELSE b

\* the depth field's handler without Math.max / Math.min
typedDepthUnclamped(value) == orOne(parseInt(value))

\* Math.max(1, Math.min(10, parseInt(e.target.value) || 1))
typedDepth(value) == max(1, min(10, orOne(parseInt(value))))

InitForm ==
  /\ PageInitial
  /\ FormInitial
  /\ ServerAtRest
  /\ repoUrl = <<>>
  /\ maxDepth = -1

\* everything RepoForm never touches
FormFrame ==
  UNCHANGED <<pattern, filePath, ignorePatterns, treeVars, docVars, pc, call,
              ret, routeVars, lineVars, tagVars, pageVars>>

\* the URL field's onChange, and handleRepoSelect: setRepoUrl
SetRepoUrl ==
  /\ \E value \in UrlInputs : formRepoUrl' = value
  /\ UNCHANGED <<depth, onSubmit>>
  /\ FormFrame

\* increaseDepth
IncreaseDepth ==
  /\ depth' = IF depth < 10 THEN depth + 1 ELSE depth
  /\ UNCHANGED <<formRepoUrl, onSubmit>>
  /\ FormFrame

\* decreaseDepth
DecreaseDepth ==
  /\ depth' = IF depth > 1 THEN depth - 1 ELSE depth
  /\ UNCHANGED <<formRepoUrl, onSubmit>>
  /\ FormFrame

\* the depth field's onChange
TypeDepth ==
  /\ \E value \in DepthInputs : depth' = typedDepth(value)
  /\ UNCHANGED <<formRepoUrl, onSubmit>>
  /\ FormFrame

\* handleSubmit: onSubmit(repoUrl, depth) unless the URL is blank
HandleSubmit ==
  /\ onSubmit' = IF trim(formRepoUrl) # <<>>
                 THEN [called |-> TRUE, url |-> formRepoUrl, depth |-> depth]
                 ELSE onSubmit
  /\ UNCHANGED <<formRepoUrl, depth>>
  /\ FormFrame

NextForm ==
  \/ SetRepoUrl
  \/ IncreaseDepth
  \/ DecreaseDepth
  \/ TypeDepth
  \/ HandleSubmit

SpecForm == InitForm /\ [][NextForm]_vars

----------------------------------------------------------------------------
(* Properties.                                                             *)

\* the request has a forest: buildFileTree returned
Built == pc \in {"treeBuilt", "assembling", "fetching", "responded"}

\* a shouldIgnore / matchPattern call is over
Called(f) == call = f /\ pc \in {"returned", "threw"}

\* a shouldIgnore / matchPattern call returned a boolean
Returned(f) == call = f /\ pc = "returned"

\* rule kinds of the ignore-file format
isSkipped(r) == startsWith(r, <<"#">>) \/ trim(r) = <<>>
isNegated(r) == ~isSkipped(r) /\ startsWith(r, <<"!">>)
isPlain(r) == ~isSkipped(r) /\ ~startsWith(r, <<"!">>)

\* left-to-right fold of a rule list: the last matching rule gives the verdict
RECURSIVE lastMatchVerdict(_, _, _)
lastMatchVerdict(path, pats, verdict) ==
  IF pats = <<>> THEN verdict
  ELSE LET r == Head(pats)
       IN lastMatchVerdict(path, Tail(pats),
            IF isPlain(r) /\ matchPattern(r, path) = "true" THEN TRUE
            ELSE IF isNegated(r) /\ matchPattern(substring(r, 1), path) = "true" THEN FALSE
            ELSE verdict)

\* C1: the verdict of shouldIgnore is that of the last rule of the list whose
\* pattern matches the candidate: ignored if it is plain, not ignored if it
\* is negated (and not ignored if no rule matches)
C1_LastMatchingRuleDecides ==
  (Returned("shouldIgnore") /\ baseName(filePath) # PackageLockJson)
    => ret = Bool(lastMatchVerdict(filePath, ignorePatterns, FALSE))

\* C2: a candidate other than the lock file that no plain rule of the list
\* matches is not ignored
C2_NoPlainMatchNotIgnored ==
  ( /\ Returned("shouldIgnore")
    /\ baseName(filePath) # PackageLockJson
    /\ \A i \in 1..Len(ignorePatterns) :
         isPlain(ignorePatterns[i]) => matchPattern(ignorePatterns[i], filePath) # "true" )
    => ret = "false"

\* every node of the root array and of every children array
AllNodes ==
  {root[i] : i \in 1..Len(root)}
    \cup UNION {{children[k][i] : i \in 1..Len(children[k])} : k \in DOMAIN children}

\* C3: a path whose final segment is package-lock.json is ignored under every
\* rule list, the forest has no node with that basename and the document has
\* no section for such a path
C3_LockFileAlwaysExcluded ==
  /\ (Called("shouldIgnore") /\ baseName(filePath) = PackageLockJson) => ret = "true"
  /\ \A n \in AllNodes : baseName(n.path) # PackageLockJson
  /\ \A i \in 1..Len(map) : baseName(map[i]) # PackageLockJson
  /\ \A i \in 1..Len(sections) : baseName(sections[i].path) # PackageLockJson

\* a document with a section was assembled from entries among which a lock
\* file lies in a directory that has its node
C3_Witness ==
  /\ pc = "responded"
  /\ sections # <<>>
  /\ \E i \in 1..Len(items) :
       /\ baseName(items[i].path) = PackageLockJson
       /\ HasKey(map, parentPathOf(items[i].path))

\* C4: a plain rule without wildcard character ignores exactly the candidates
\* whose full path or basename equals the rule
C4_LiteralRuleMatchesByEquality ==
  ( /\ Returned("shouldIgnore")
    /\ ignorePatterns = <<pattern>>
    /\ isPlain(pattern)
    /\ \A i \in 1..Len(pattern) : pattern[i] \notin {"*", "?"}
    /\ baseName(filePath) # PackageLockJson )
    => ret = Bool(filePath = pattern \/ baseName(filePath) = pattern)

\* C5: matchPattern and shouldIgnore return a boolean for every pattern and
\* candidate and never raise; buildFileTree never fails because of a rule
C5_MatcherIsTotal ==
  /\ pc \notin {"threw", "error500"}
  /\ ret # "SyntaxError"

\* wildcard matching as the ignore-file format defines it: '*' is any string,
\* '?' is any one character, every other character is itself
RECURSIVE globMatch(_, _)
globMatch(pat, s) ==
  IF pat = <<>> THEN s = <<>>
  ELSE IF Head(pat) = "*"
       THEN \E i \in 0..Len(s) : globMatch(Tail(pat), SubSeq(s, i + 1, Len(s)))
  ELSE /\ s # <<>>
       /\ (Head(pat) = "?" \/ Head(pat) = Head(s))
       /\ globMatch(Tail(pat), Tail(s))

\* C6: matchPattern is true exactly when the pattern, read as a wildcard
\* pattern, equals the whole full path or the whole basename (stated for the
\* calls that return, on a non-empty pattern and a candidate free of line
\* terminators)
C6_WildcardMatchIsGlob ==
  ( /\ Returned("matchPattern")
    /\ pattern # <<>>
    /\ \A i \in 1..Len(filePath) : filePath[i] \notin LineTerminators )
    => ret = Bool(globMatch(pattern, filePath) \/ globMatch(pattern, baseName(filePath)))

\* the forest in pre-order
Forest == flattenTree(root, children)

NodeType(t) == IF t = "tree" THEN "dir" ELSE "file"

InSeq(nodes, path) == \E k \in 1..Len(nodes) : nodes[k].path = path

\* no rules, unlimited depth, no lock file, and every parent has its own
\* directory entry
C7_Pre ==
  /\ ignorePatterns = <<>>
  /\ maxDepth = -1
  /\ \A i \in 1..Len(items) :
       /\ baseName(items[i].path) # PackageLockJson
       /\ parentPathOf(items[i].path) # <<>> =>
            \E j \in 1..Len(items) :
               /\ items[j].path = parentPathOf(items[i].path)
               /\ items[j].type = "tree"

C8_ChildExtendsParentByOneSegment ==
  Built =>
    /\ \A i \in 1..Len(root) : depthOf(root[i].path) = 1
    /\ \A k \in DOMAIN children : \A i \in 1..Len(children[k]) :
         LET c == children[k][i].path
         IN /\ depthOf(c) = depthOf(k) + 1
            /\ c = k \o <<"/">> \o baseName(c)
            /\ parentPathOf(c) = k

\* a forest with a node two levels below a root
C8_Witness ==
  /\ pc = "treeBuilt"
  /\ \E k \in 1..Len(Forest) : depthOf(Forest[k].path) = 3

NoDuplicatePath(nodes) ==
  \A i, j \in 1..Len(nodes) : nodes[i].path = nodes[j].path => i = j

\* C9: no two nodes of the root array or of one children array share a path,
\* no entry appears twice in the forest, and a file node has no children
C9_NoDuplicatesNoFileChildren ==
  (Built /\ DistinctPaths(items)) =>
    /\ NoDuplicatePath(root)
    /\ \A k \in DOMAIN children : NoDuplicatePath(children[k])
    /\ NoDuplicatePath(Forest)
    /\ \A n \in AllNodes : n.type = "file" => n.path \notin DOMAIN children

\* a forest with a root directory that has a file and another node as children
C9_Witness ==
  /\ pc = "treeBuilt"
  /\ \E i \in 1..Len(root) :
       /\ root[i].type = "dir"
       /\ Len(children[root[i].path]) >= 2
       /\ \E j \in 1..Len(children[root[i].path]) :
            children[root[i].path][j].type = "file"

\* the entry has a parent path and that path has no directory node
IsOrphan(item) ==
  /\ parentPathOf(item.path) # <<>>
  /\ ~HasKey(map, parentPathOf(item.path))

\* C10: an entry whose parent path has no created directory node appears
\* nowhere in the forest, and buildFileTree completes without error
C10_OrphansDroppedWithoutError ==
  \A i \in 1..Len(items) :
     IsOrphan(items[i]) =>
       /\ pc # "error500"
       /\ Built => ~InSeq(Forest, items[i].path)

\* in every forest that is returned, no orphan entry appears
OrphansAbsentFromReturnedForest ==
  Built => \A i \in 1..Len(items) :
             IsOrphan(items[i]) => \A n \in AllNodes : n.path # items[i].path

\* the entry is not ignored and its parent, if it has one, has a directory node
HasPlace(item) ==
  /\ shouldIgnore(item.path, ignorePatterns) = "false"
  /\ parentPathOf(item.path) # <<>> => HasKey(map, parentPathOf(item.path))

\* C11: with a maxDepth other than -1 no node of the forest, directory or
\* file, has more than maxDepth segments; with maxDepth = -1 no entry is left
\* out for its depth; entries [a, a/b, a/b/c.txt] with maxDepth 1 give the
\* single root 'a'
C11_DepthBound ==
  Built =>
    /\ maxDepth # -1 =>
         /\ \A n \in AllNodes : depthOf(n.path) <= maxDepth
         /\ \A i \in 1..Len(map) : depthOf(map[i]) <= maxDepth
    /\ maxDepth = -1 =>
         \A i \in 1..Len(items) :
            HasPlace(items[i]) =>
              [path |-> items[i].path, type |-> NodeType(items[i].type)] \in AllNodes
    /\ ( /\ maxDepth = 1
         /\ ignorePatterns = <<>>
         /\ items = << [path |-> <<"a">>, type |-> "tree"],
                       [path |-> <<"a", "/", "b">>, type |-> "tree"],
                       [path |-> <<"a", "/", "b", "/", "c", ".", "t", "x", "t">>, type |-> "blob"] >> )
         => /\ root = << [path |-> <<"a">>, type |-> "dir"] >>
            /\ AllNodes = {[path |-> <<"a">>, type |-> "dir"]}

\* a forest built under a bound that kept a node and left out a deeper entry
\* whose parent directory was created
C11_Witness ==
  /\ pc = "treeBuilt"
  /\ maxDepth = 1
  /\ root # <<>>
  /\ \E i \in 1..Len(items) :
       /\ HasPlace(items[i])
       /\ depthOf(items[i].path) = 2
       /\ ~InSeq(Forest, items[i].path)

\* position in `items` of the entry a node was created for
EntryIndex(path) == CHOOSE i \in 1..Len(items) : items[i].path = path

\* the directory nodes of a children (or root) array, in array order
SelectDirs(nodes) == SelectSeq(nodes, LAMBDA n : n.type = "dir")

\* the nodes of the array are in the relative order of their entries in `items`
InInputOrder(nodes) ==
  \A i, j \in 1..Len(nodes) : i < j => EntryIndex(nodes[i].path) < EntryIndex(nodes[j].path)

\* C12: in the root array and in every children array, sibling directories
\* appear in the relative order in which their entries appear in the input
\* sequence, whatever their names are
C12_SiblingDirectoriesInInputOrder ==
  Built =>
    /\ InInputOrder(SelectDirs(root))
    /\ \A k \in DOMAIN children : InInputOrder(SelectDirs(children[k]))

\* the same for the files of an array among themselves
SiblingFilesInInputOrder ==
  Built =>
    /\ InInputOrder(SelectFiles(root))
    /\ \A k \in DOMAIN children : InInputOrder(SelectFiles(children[k]))

\* in every array the directory nodes come before the file nodes
DirectoriesBeforeFiles ==
  Built =>
    \A nodes \in {root} \cup {children[k] : k \in DOMAIN children} :
       \A i, j \in 1..Len(nodes) :
          (nodes[i].type = "file" /\ nodes[j].type = "dir") => j < i

\* the markdown endpoint has returned the document
DocumentReturned == pc = "responded" /\ response = MarkdownResponse

\* the file nodes of the forest in pre-order
ForestFiles == SelectFiles(Forest)

\* C13: the document that generateRepositoryMarkdown returns has exactly one
\* section per file node of the forest, in pre-order; a file whose fetch
\* succeeded has a heading and a fenced code block, a file whose fetch failed
\* has the heading and the failure placeholder
C13_OneSectionPerFileByFetchOutcome ==
  DocumentReturned =>
    /\ Len(sections) = Len(ForestFiles)
    /\ \A i \in 1..Len(sections) :
         /\ sections[i].path = ForestFiles[i].path
         /\ sections[i].kind = IF sections[i].fetched THEN "code" ELSE "placeholder"

\* every document has one section per file node, in pre-order, and a failed
\* fetch gives the placeholder
OneSectionPerFileInPreOrder ==
  DocumentReturned =>
    /\ Len(sections) = Len(ForestFiles)
    /\ \A i \in 1..Len(sections) :
         /\ sections[i].path = ForestFiles[i].path
         /\ ~sections[i].fetched => sections[i].kind = "placeholder"

\* without line rules a fetched file always has its code block
FetchedFileHasCodeBlockWithoutLineRules ==
  (DocumentReturned /\ sourceIgnorePatterns = <<>>) =>
    \A i \in 1..Len(sections) :
       sections[i].kind = IF sections[i].fetched THEN "code" ELSE "placeholder"

\* once the assembly has started the request never ends in an error
AssemblyNeverFails ==
  flatFiles # <<>> => pc \in {"assembling", "fetching", "responded"}

\* the lines of s, an empty content having the single line ''
LinesOf(s) == splitLines(s)

\* isIgnored(l, sourceIgnorePatterns) is true
LineIgnored(l) == shouldIgnore(l, sourceIgnorePatterns) = "true"

\* is `sub` what is left of `full` when the ignored lines are taken out, the
\* others keeping their order
RECURSIVE IsRestriction(_, _)
IsRestriction(sub, full) ==
  IF full = <<>> THEN sub = <<>>
  ELSE IF LineIgnored(Head(full)) THEN IsRestriction(sub, Tail(full))
  ELSE /\ sub # <<>>
       /\ Head(sub) = Head(full)
       /\ IsRestriction(Tail(sub), Tail(full))

\* the lines that make up an emitted content: none when it is empty because
\* every line was removed
EmittedLines(emitted, original) ==
  IF emitted = <<>> /\ \A i \in 1..Len(LinesOf(original)) : LineIgnored(LinesOf(original)[i])
  THEN <<>>
  ELSE LinesOf(emitted)

\* C14 as stated: for every line-rule list, the empty one included, the
\* emitted content consists of exactly the lines of the fetched content for
\* which isIgnored is false, in their original order
C14_EmittedLinesAreTheNotIgnoredOnes ==
  pc = "filtered" =>
    IsRestriction(EmittedLines(filteredContent, content), LinesOf(content))

\* C14 amended: under a non-empty line-rule list the emitted content consists
\* of exactly the lines of the fetched content for which isIgnored is false,
\* in their original order; under the empty list the content is emitted
\* unchanged
C14_EmittedLinesAmended ==
  pc = "filtered" =>
    IF sourceIgnorePatterns # <<>>
    THEN IsRestriction(EmittedLines(filteredContent, content), LinesOf(content))
    ELSE filteredContent = content

\* a content filtered under a non-empty list that lost a line and kept another
C14_Witness ==
  /\ pc = "filtered"
  /\ sourceIgnorePatterns # <<>>
  /\ filteredContent # <<>>
  /\ filteredContent # content

\* a content with a package-lock.json line emitted under the empty list
C14_WitnessEmptyList ==
  /\ pc = "filtered"
  /\ sourceIgnorePatterns = <<>>
  /\ \E i \in 1..Len(LinesOf(content)) : LineIgnored(LinesOf(content)[i])

\* C15: filtering an already filtered content again with the same line-rule
\* list yields the same content, and does not raise
C15_LineFilterIdempotent ==
  /\ pc = "filtered" => ~filterThrows(filteredContent, sourceIgnorePatterns)
  /\ pc = "refiltered" => ret = filteredContent

\* whenever the second filtering returns, it returns its input
SecondFilteringChangesNothing ==
  pc = "refiltered" => ret = filteredContent

\* the rule list without its comment lines and blank lines
RulesProper(pats) == SelectSeq(pats, LAMBDA r : ~isSkipped(r))

\* C16: the outcome of shouldIgnore is that of the rule list with every
\* comment line and blank line taken out, so that inserting or removing such
\* lines at any position changes nothing for any candidate
C16_CommentAndBlankLinesChangeNothing ==
  Called("shouldIgnore") => ret = shouldIgnore(filePath, RulesProper(ignorePatterns))

\* a call that returned true under a list that has a comment line or a blank
\* line before the rule that matches
C16_Witness ==
  /\ Returned("shouldIgnore")
  /\ ret = "true"
  /\ Len(ignorePatterns) >= 2
  /\ isSkipped(ignorePatterns[1])
  /\ filePath # PackageLockJson

NodeModules == <<"n", "o", "d", "e", "_", "m", "o", "d", "u", "l", "e", "s">>

\* the .gitignore directory forms of a name: '/name/' and 'name/'
DirectoryForms(name) == {<<"/">> \o name \o <<"/">>, name \o <<"/">>}

\* C17: under a rule list that holds '/node_modules/' or 'node_modules/', the
\* directory entry 'node_modules' is ignored by shouldIgnore
C17_DirectoryFormRuleIgnoresDirectory ==
  ( /\ Returned("shouldIgnore")
    /\ filePath = NodeModules
    /\ \E i \in 1..Len(ignorePatterns) : ignorePatterns[i] \in DirectoryForms(NodeModules) )
    => ret = "true"

\* a rule in directory form never matches the directory it names
DirectoryFormNeverMatchesItsDirectory ==
  \A r \in DirectoryForms(NodeModules) : matchPattern(r, NodeModules) = "false"

\* the URL has a part 'github.com/<owner>/<repo>' with non-empty owner and
\* repo: some '/' that follows 'github.com/' after one or more other
\* characters is itself followed by a character other than '/'
NamesGitHubRepo(url) ==
  \E i, j \in 1..Len(url) :
     /\ i + 11 < j /\ j < Len(url)
     /\ SubSeq(url, i, i + 10) = GitHubCom
     /\ \A k \in (i + 11)..(j - 1) : url[k] # "/"
     /\ url[j] = "/"
     /\ url[j + 1] # "/"

\* the request is past the input checks and the retrievals
Answered == pc \in {"error400", "error500", "responded"}

\* C18: a request without a repository URL, or with a URL that names no
\* GitHub repository, is answered with status 400, a failed retrieval with
\* status 500, and such an error response holds neither fileTree nor
\* markdown; a fileTree or a markdown is only ever returned with status 200,
\* when the tree or the document is complete
C18_ErrorResponseCarriesNoResult ==
  /\ pc = "error400" =>
       response = [status |-> 400, error |-> TRUE, fileTree |-> FALSE, markdown |-> FALSE]
  /\ pc = "error500" =>
       response = [status |-> 500, error |-> TRUE, fileTree |-> FALSE, markdown |-> FALSE]
  /\ (pc \notin {"idle", "returned", "threw", "received"} /\ ~NamesGitHubRepo(repoUrl)) =>
       pc = "error400"
  /\ ~Answered => response = NoResponse
  /\ (response.fileTree \/ response.markdown) =>
       /\ pc = "responded"
       /\ response.status = 200
       /\ response.markdown => nextFile > Len(flatFiles)

\* a request whose retrieval failed, answered before any entry was seen
C18_Witness ==
  /\ pc = "error500"
  /\ NamesGitHubRepo(repoUrl)
  /\ items = <<>>

\* a request answered with status 400 for a URL that names no repository
C18_WitnessNoRepository ==
  /\ pc = "error400"
  /\ repoUrl # <<>>

\* the path made of the first d segments of a path
AncestorAt(path, d) == join(SubSeq(split(path), 1, d))

\* the root array or children array that holds the node of a path
ArrayOf(path) ==
  IF parentPathOf(path) = <<>> THEN root ELSE children[parentPathOf(path)]

IndexIn(nodes, path) == CHOOSE k \in 1..Len(nodes) : nodes[k].path = path

\* first depth at which two distinct paths differ
ForkDepth(p, q) ==
  CHOOSE d \in 1..Len(split(p)) :
     /\ (d > Len(split(q)) \/ AncestorAt(p, d) # AncestorAt(q, d))
     /\ \A e \in 1..(d - 1) : AncestorAt(p, e) = AncestorAt(q, e)

\* file p comes before file q in a pre-order walk: where their paths fork,
\* the ancestor of p stands before the ancestor of q in their common array
PreOrderBefore(p, q) ==
  LET d == ForkDepth(p, q)
  IN IndexIn(ArrayOf(AncestorAt(p, d)), AncestorAt(p, d))
       < IndexIn(ArrayOf(AncestorAt(q, d)), AncestorAt(q, d))

\* C20: the per-file sections stand in the order of a pre-order walk of the
\* forest (a node before its children, children in array order); every
\* section is that of a node of type 'file', each file node has at most one
\* section, and a directory node has none
C20_SectionsInPreOrderOfFileNodes ==
  /\ \A i \in 1..Len(sections) :
       /\ [path |-> sections[i].path, type |-> "file"] \in AllNodes
       /\ [path |-> sections[i].path, type |-> "dir"] \notin AllNodes
  /\ \A i, j \in 1..Len(sections) :
       i < j => /\ sections[i].path # sections[j].path
                /\ PreOrderBefore(sections[i].path, sections[j].path)

\* a document in which the section of a file inside a directory precedes the
\* section of a file of the root array
C20_Witness ==
  /\ DocumentReturned
  /\ \E i, j \in 1..Len(sections) :
       /\ i < j
       /\ depthOf(sections[i].path) >= 2
       /\ depthOf(sections[j].path) = 1

\* the fetches that were started and have not settled
Outstanding == {i \in 1..Len(fetches) : ~fetches[i].settled}

\* C21: at most one content fetch is outstanding at any time, and the
\* fetches start in pre-order: when the fetch of a file is started, the fetch
\* of every earlier file in pre-order has been started and has settled
C21_OneFetchAtATimeInPreOrder ==
  /\ Cardinality(Outstanding) <= 1
  /\ \A i \in 1..Len(fetches) :
       /\ i < Len(fetches) => fetches[i].settled
       /\ i <= Len(ForestFiles)
       /\ fetches[i].path = ForestFiles[i].path
  /\ Outstanding # {} <=> pc = "fetching"

\* the fetch of a second file is outstanding, that of the first has settled
C21_Witness ==
  /\ pc = "fetching"
  /\ Len(fetches) >= 2
  /\ Outstanding = {Len(fetches)}

\* path q lies under path p: p followed by '/' and more
IsUnder(q, p) == startsWith(q, p \o <<"/">>) /\ Len(q) > Len(p) + 1

\* the directory entries of the input that shouldIgnore ignores
IgnoredDirectories ==
  {items[i].path : i \in {k \in 1..Len(items) :
                            /\ items[k].type = "tree"
                            /\ shouldIgnore(items[k].path, ignorePatterns) = "true"}}

\* C22: if a directory entry is ignored, no entry whose path lies under it is
\* in the returned forest, whether or not that entry matches a rule and
\* whether or not its intermediate directories have entries of their own
C22_NothingUnderAnIgnoredDirectory ==
  Built =>
    \A d \in IgnoredDirectories :
       \A k \in 1..Len(Forest) : ~IsUnder(Forest[k].path, d)

\* a forest built from an ignored directory, a directory below it that has
\* its own node, and a file in that directory which no rule ignores
C22_Witness ==
  /\ pc = "treeBuilt"
  /\ \E d \in IgnoredDirectories :
       \E k \in DOMAIN children :
          /\ IsUnder(k, d)
          /\ children[k] # <<>>
          /\ shouldIgnore(children[k][1].path, ignorePatterns) = "false"

\* number of file nodes of the forest
FileNodeCount == Cardinality({k \in 1..Len(Forest) : Forest[k].type = "file"})

\* C24: no file node of a forest built with the path rules is ignored under
\* these rules, so the re-check of the assembler skips no file: every file
\* taken from flatFiles so far has its section, and the document has as many
\* file sections as the forest has file nodes
C24_RecheckSkipsNoFile ==
  /\ pc = "treeBuilt" =>
       \A n \in AllNodes : n.type = "file" => shouldIgnore(n.path, ignorePatterns) = "false"
  /\ pc = "assembling" => Len(sections) = nextFile - 1
  /\ DocumentReturned => Len(sections) = FileNodeCount

\* a document for a forest built under rules that ignored a file entry and
\* kept another
C24_Witness ==
  /\ DocumentReturned
  /\ sections # <<>>
  /\ \E i \in 1..Len(items) :
       /\ items[i].type = "blob"
       /\ items[i].path # PackageLockJson
       /\ baseName(items[i].path) # PackageLockJson
       /\ shouldIgnore(items[i].path, ignorePatterns) = "true"

\* the entry is one the forest must hold: not ignored, within the depth
\* bound, and each of its proper ancestor paths has a directory entry of its
\* own that is not ignored
IsKept(e) ==
  /\ shouldIgnore(e.path, ignorePatterns) = "false"
  /\ maxDepth = -1 \/ depthOf(e.path) <= maxDepth
  /\ \A d \in 1..(depthOf(e.path) - 1) :
       \E j \in 1..Len(items) :
          /\ items[j].path = AncestorAt(e.path, d)
          /\ items[j].type = "tree"
          /\ shouldIgnore(items[j].path, ignorePatterns) = "false"

\* the nodes reachable from the roots
ReachableNodes == {Forest[k] : k \in 1..Len(Forest)}

\* the directory nodes that were created but have no parent node
DetachedDirectories ==
  {map[i] : i \in {k \in 1..Len(map) :
                     /\ parentPathOf(map[k]) # <<>>
                     /\ ~HasKey(map, parentPathOf(map[k]))}}

NodesOfBuilt(built) ==
  LET walk == flattenTree(built.root, built.children)
  IN {walk[k] : k \in 1..Len(walk)}

\* the forest that the same entries and rules give under another maxDepth
ForestUnder(d) == buildFileTree(items, ignorePatterns, d)

SameForest(built) == built.root = root /\ built.children = children

\* the largest segment count of an entry, 0 without entries
LargestDepth ==
  IF items = <<>> THEN 0
  ELSE CHOOSE m \in {depthOf(items[i].path) : i \in 1..Len(items)} :
         \A i \in 1..Len(items) : depthOf(items[i].path) <= m

\* C26: for maxDepth d >= 0 the node set of the forest is the part of the
\* node set for d + 1 with at most d segments; the forest for maxDepth 0 and
\* for a negative maxDepth other than -1 is empty; for a maxDepth at least
\* the largest segment count of the entries the forest is that for -1
C26_MonotoneInMaxDepth ==
  pc = "treeBuilt" =>
    /\ maxDepth >= 0 =>
         ReachableNodes = {n \in NodesOfBuilt(ForestUnder(maxDepth + 1)) :
                             depthOf(n.path) <= maxDepth}
    /\ (maxDepth = 0 \/ maxDepth < -1) => root = <<>>
    /\ maxDepth >= LargestDepth => SameForest(ForestUnder(-1))

\* a forest under a bound that is smaller than the forest under the next one
C26_Witness ==
  /\ pc = "treeBuilt"
  /\ maxDepth >= 1
  /\ root # <<>>
  /\ ReachableNodes # NodesOfBuilt(ForestUnder(maxDepth + 1))

\* C27: if shouldIgnore is true for the candidate under a rule list R, it is
\* true under R followed by S and under S followed by R, whatever rules S
\* holds: stated for every way of cutting the rule list of the call into a
\* front part and a back part
C27_MonotoneInRuleList ==
  Called("shouldIgnore") =>
    \A k \in 0..Len(ignorePatterns) :
       /\ shouldIgnore(filePath, SubSeq(ignorePatterns, 1, k)) = "true" => ret = "true"
       /\ shouldIgnore(filePath, SubSeq(ignorePatterns, k + 1, Len(ignorePatterns))) = "true"
            => ret = "true"

\* whenever the call returns, added rules have not made an ignored candidate
\* a non-ignored one
MonotoneInRuleListWhenItReturns ==
  Returned("shouldIgnore") =>
    \A k \in 0..Len(ignorePatterns) :
       /\ shouldIgnore(filePath, SubSeq(ignorePatterns, 1, k)) = "true" => ret = "true"
       /\ shouldIgnore(filePath, SubSeq(ignorePatterns, k + 1, Len(ignorePatterns))) = "true"
            => ret = "true"

\* the extension of a path: what follows the last '.' of its final segment,
\* none (the empty string) when that segment has no '.'
ExtensionOf(path) ==
  IF \A i \in 1..Len(baseName(path)) : baseName(path)[i] # "." THEN <<>>
  ELSE lastDotPart(baseName(path))

\* the extensions that have a language tag, with their tag
TagByExtension ==
  << <<<<"j", "s">>, "javascript">>,
     <<<<"j", "s", "x">>, "javascript">>,
     <<<<"t", "s">>, "typescript">>,
     <<<<"t", "s", "x">>, "typescript">>,
     <<<<"p", "y">>, "python">>,
     <<<<"h", "t", "m", "l">>, "html">>,
     <<<<"h", "t", "m">>, "html">>,
     <<<<"c", "s", "s">>, "css">>,
     <<<<"j", "s", "o", "n">>, "json">>,
     <<<<"m", "d">>, "markdown">>,
     <<<<"m", "a", "r", "k", "d", "o", "w", "n">>, "markdown">>,
     <<<<"y", "a", "m", "l">>, "yaml">>,
     <<<<"y", "m", "l">>, "yaml">> >>

\* the tag the table gives an extension, letter case aside
TagOf(extension) == lookup(TagByExtension, toLowerCase(extension))

HasSpecialName(path) ==
  \E i \in 1..Len(specialNames) : endsWith(path, specialNames[i][1])

\* a path that ends with no special file name has the tag of its extension
TagByExtensionUnlessSpecialName ==
  (pc = "tagged" /\ ~HasSpecialName(filePath)) => language = TagOf(ExtensionOf(filePath))

\* a path that ends with a special file name has the empty tag
SpecialNameHasNoTag ==
  (pc = "tagged" /\ HasSpecialName(filePath)) => language = ""

\* a file content is on screen: `selectedFile && fileContent`
Displayed == selectedFile # "" /\ fileContent.kind # "null"

\* C28: whenever a file content is displayed, it is the response (or the
\* failure message) of the request issued for the current selectedFile by the
\* latest click, never that of an earlier click.
C28_DisplayedContentIsOfSelectedFile ==
  Displayed =>
    /\ fileContent.path = selectedFile
    /\ fileContent.click = clicks

\* with a single click there is nothing to overtake: the content is right
DisplayedContentIsRightAfterOneClick ==
  (Displayed /\ clicks = 1) => fileContent.path = selectedFile

\* the order of the three fetches of handleRepoSubmit
RunOrder == <<"info", "tree", "markdown">>

\* the current run of handleRepoSubmit ended in its catch block
RunFailed ==
  requests # <<>> /\ requests[Len(requests)].outcome = "failed"

\* the fetches issued so far are info, tree, markdown in that order, each one
\* issued only after the one before it was ok; while a fetch is awaited
\* isLoading is true; and after a failure the error is set, markdown is
\* empty, and the tree is empty unless the tree step was passed
RunInOrderAndFailureStops ==
  /\ Len(requests) <= 3
  /\ \A i \in 1..Len(requests) :
       /\ requests[i].name = RunOrder[i]
       /\ i < Len(requests) => requests[i].outcome = "ok"
  /\ step # "idle" =>
       /\ isLoading
       /\ requests[Len(requests)] = [name |-> step, outcome |-> "pending"]
  /\ RunFailed =>
       /\ step = "idle"
       /\ error = TRUE
       /\ markdown = ""
       /\ Len(requests) <= 2 => fileTree = <<>>

\* C29: handleRepoSubmit issues repository info, file tree, markdown strictly
\* in that order; when one fails no later request is issued, the error is
\* set, and the tree and markdown stay empty for the steps not reached; and
\* isLoading, true from the start, is eventually false again in every case.
C29_InOrderStopsOnFailureAndLoadingEnds ==
  /\ []RunInOrderAndFailureStops
  /\ isLoading ~> ~isLoading

\* a run failed at the markdown step: tree shown, markdown empty, error set
C29_Witness ==
  /\ RunFailed
  /\ Len(requests) = 3
  /\ fileTree # <<>>
  /\ markdown = ""
  /\ error = TRUE
  /\ ~isLoading

\* C30: in RepoForm the depth is always an integer in 1..10 (a non-numeric
\* typed value gives 1, every typed value is clamped), so every onSubmit
\* call passes a depth in 1..10, never -1; and onSubmit is never called with
\* an empty or white-space-only URL.
C30_DepthInRangeAndUrlNotBlank ==
  /\ depth \in 1..10
  /\ \A value \in DepthInputs :
       /\ typedDepth(value) \in 1..10
       /\ parseInt(value).nan => typedDepth(value) = 1
  /\ onSubmit.called =>
       /\ onSubmit.depth \in 1..10
       /\ onSubmit.depth # -1
       /\ trim(onSubmit.url) # <<>>

\* onSubmit was called at the largest depth, reached by typing or increasing
C30_Witness ==
  /\ onSubmit.called
  /\ onSubmit.depth = 10
  /\ depth = 10

====
